---- MODULE Spec2Model ----
(***************************************************************************)
(* A state-machine model of the debug bridge: the session relay            *)
(* (startServer), the command executor (CommandExecutor), the browser-side *)
(* connection manager (createDebugBridge), the DOM mutation batcher        *)
(* (DomObserver), target resolution (CommandExecutor.resolveTarget), the    *)
(* UI tree (UiTreeBuilder) and the collectors (ConsoleHook, ErrorHook,      *)
(* NetworkHook, NavigationHook).                                           *)
(* Every subsystem has its own specification over its own variables; the   *)
(* variables of the other subsystems stay at their initial values.         *)
(***************************************************************************)
EXTENDS Integers, Sequences, FiniteSets, TLC

(***************************************************************************)
(* Bounds of the model.                                                    *)
(***************************************************************************)
\* sockets the relay can hold at one time (a closed socket's slot is reused)
MaxSockets == 3

\* "no value": null / undefined / an absent Map entry
None == "none"

Min(a, b) == IF a <= b THEN a ELSE b

RECURSIVE Pow2(_)
Pow2(n) == IF n <= 0 THEN 1 ELSE 2 * Pow2(n - 1)

RECURSIVE SeqToSet(_)
SeqToSet(s) == IF s = <<>> THEN {} ELSE {Head(s)} \cup SeqToSet(Tail(s))

RECURSIVE SelectSeqOf(_, _)
\* the elements of sequence s that are in set S, in order
SelectSeqOf(s, S) ==
  IF s = <<>> THEN <<>>
  ELSE IF Head(s) \in S THEN <<Head(s)>> \o SelectSeqOf(Tail(s), S)
       ELSE SelectSeqOf(Tail(s), S)

VARIABLES
  rsock,      \* readyState of each server-side socket: "free" | "open" | "closed"
  clients,    \* the Map<WebSocket, Client>, as a sequence in insertion order
  rhandlers,  \* sockets whose 'message' / 'close' handlers are registered
  rinbox,     \* what the last handler run sent on each socket
  rcli,       \* CLI callbacks the last handler run invoked, in order
  rclose,     \* close code the last handler run closed a socket with (0: none)
  rop         \* the last handler run: its kind, socket and input

VARIABLES
  rdom,       \* the document resolveTarget searches: elements in document order
  rtarget,    \* the ElementTarget handed to resolveTarget
  rresult,    \* what resolveTarget did: returned an element, or threw
  rtree,      \* the last ui_tree response, and the item a click was aimed at
  getStableId \* config.getStableId: what it returns per element (None: null, or
              \* the config has no such function)

VARIABLES
  xcfg,       \* the executor's config: enableEval, getCustomState, getStableId, build
  xopen,      \* ws.readyState === WebSocket.OPEN
  xconn,      \* which connection of the bridge is the current one (1, 2, ...)
  xnext,      \* the requestId of the next command (requestIds are 1, 2, ...)
  xrun,       \* the last run of execute() or of a resumed capture, and its frames
  xpending,   \* the commands whose execute() awaits the rasterizer
  xtally      \* per requestId: the frames sent for it so far

VARIABLES
  bcfg,                   \* the bridge's resolved config: autoReconnect
  bws,                    \* `ws`: the socket it refers to (0: null, or a CLOSED socket)
  readyState,             \* readyState of the bridge's WebSockets ("none": CLOSED, gone)
  attempting,             \* the sockets that are reconnect attempts still under way
  reconnectAttempt,       \* `reconnectAttempt`
  reconnectTimeout,       \* `reconnectTimeout`: the timer it refers to (0: null)
  intentionalDisconnect,  \* `intentionalDisconnect`
  timers,                 \* the setTimeout timers that are set, and their delays
  hooksRef,               \* domObserver, consoleHook, ... refer to a started collector set
  hooksLeaked,            \* a started collector set is no longer referred to
  bev,                    \* the last handler run or API call, and what it did
  closes,                 \* closes not suppressed by disconnect() since the last open
  rfails,                 \* reconnect attempts that failed in a row
  terminals,              \* terminal errors surfaced since rfails was last reset
  disconnected,           \* disconnect() was called and connect() not since
  bwire                   \* per socket: the first two frames that were sent on it

VARIABLES
  observer,   \* the DomObserver of the connection: "none" | "running" | "stopped"
  pending,    \* its `pending` array: the serialized records not yet delivered
  timeout,    \* its `timeout`: the flush timer is set
  dnext,      \* the next mutation record the document produces (1, 2, ...)
  dwindow,    \* the records that arrived since the flush timer was set
  dhist,      \* the records handed to the callback so far, and the last
              \* record the document had produced at the last stop()
  dev         \* the last step: its kind, the batches it handed to the callback

VARIABLES
  hfn,        \* the function each patched built-in currently is
  hlisten,    \* the window listeners registered: <<event, instance>>
  hook,       \* the collector instances: phase, saved originals, handlers
  hflight,    \* the captured request whose response is awaited
  xhrListeners, \* the loadend listeners on the application's XMLHttpRequest
  hlog,       \* what the NetworkHook callbacks were called with, in order
  hev         \* the last collector step and the telemetry it handed over

VARIABLES
  appConnection \* websocket-server.ts: the socket sendCommand writes to (0: null)

serverVars == <<appConnection>>

(***************************************************************************)
(* SESSION RELAY  (startServer)                                            *)
(***************************************************************************)
relayVars == <<rsock, clients, rhandlers, rinbox, rcli, rclose, rop>>
resolveVars == <<rdom, rtarget, rresult, rtree, getStableId>>
execVars == <<xcfg, xopen, xconn, xnext, xrun, xpending, xtally>>
bridgeVars ==
  <<bcfg, bws, readyState, attempting, reconnectAttempt,
    reconnectTimeout, intentionalDisconnect, timers, hooksRef, hooksLeaked, bev,
    closes, rfails, terminals, disconnected, bwire>>
domVars == <<observer, pending, timeout, dnext, dwindow, dhist, dev>>
hookVars == <<hfn, hlisten, hook, hflight, xhrListeners, hlog, hev>>
vars == <<relayVars, resolveVars, execVars, bridgeVars, domVars, hookVars, serverVars>>

nonRelayVars == <<resolveVars, execVars, bridgeVars, domVars, hookVars, serverVars>>
nonResolveVars == <<relayVars, execVars, bridgeVars, domVars, hookVars, serverVars>>
nonExecVars == <<relayVars, resolveVars, bridgeVars, domVars, hookVars, serverVars>>
nonBridgeVars == <<relayVars, resolveVars, execVars, domVars, hookVars, serverVars>>
nonDomVars == <<relayVars, resolveVars, execVars, bridgeVars, hookVars, serverVars>>
nonServerVars == <<clients, resolveVars, execVars, bridgeVars, domVars, hookVars>>
nonHookVars == <<relayVars, resolveVars, execVars, bridgeVars, domVars, serverVars>>

Sock == 1 .. MaxSockets

\* config.session, and the sessionId values a URL can carry
ConfigSession == "s1"
SessionParams == {"s1", "s2", None}
\* the role values a URL can carry
RoleParams == {"app", "agent", "viewer", None}

\* The frames a client can put on a socket: JSON objects by their type, the
\* JSON text `null`, and a text that is not JSON.
FrameData ==
  {"hello", "command_result", "console", "ui_tree", "click", "request_ui_tree",
   "null", "garbage"}

JSONParseLenient(d) ==
  IF d = "null" \/ d = "garbage" THEN [ok |-> TRUE, isObject |-> FALSE, type |-> None]
  ELSE [ok |-> TRUE, isObject |-> TRUE, type |-> d]

\* JSON.parse(data.toString())
JSONParse(d) ==
  CASE d = "garbage" -> [ok |-> FALSE, isObject |-> FALSE, type |-> None]
    [] d = "null"    -> [ok |-> TRUE, isObject |-> FALSE, type |-> None]
    [] OTHER         -> [ok |-> TRUE, isObject |-> TRUE, type |-> d]

\* what clients.get(ws) gives for a socket that is not in the Map
NoClient == [ws |-> 0, role |-> None, sessionId |-> None]

\* clients.get(ws)
ClientOf(ws) ==
  IF \E i \in 1 .. Len(clients) : clients[i].ws = ws
  THEN clients[CHOOSE i \in 1 .. Len(clients) : clients[i].ws = ws]
  ELSE NoClient

Registered == {clients[i].ws : i \in 1 .. Len(clients)}

ClientsKept(ws) == clients

\* clients.delete(ws)
ClientsDelete(ws) == SelectSeq(clients, LAMBDA c : c.ws # ws)

NoInbox == [s \in Sock |-> <<>>]

\* a relay that answers one client only: the first of the role in the pool
BroadcastToRoleFirst(cs, sessionId, role, msg, excludeWs) ==
  [s \in Sock |->
     IF \E i \in 1 .. Len(cs) :
          /\ cs[i].ws = s
          /\ cs[i].sessionId = sessionId
          /\ cs[i].role = role
          /\ s # excludeWs
          /\ rsock[s] = "open"
          /\ \A j \in 1 .. i - 1 : cs[j].role # role
     THEN <<msg>> ELSE <<>>]

BroadcastToRoleAnyRole(cs, sessionId, role, msg, excludeWs) ==
  [s \in Sock |->
     IF \E i \in 1 .. Len(cs) :
          /\ cs[i].ws = s
          /\ cs[i].sessionId = sessionId
          /\ s # excludeWs
          /\ rsock[s] = "open"
     THEN <<msg>> ELSE <<>>]

\* broadcastToRole(sessionId, role, msg, excludeWs): what each socket is sent
BroadcastToRole(cs, sessionId, role, msg, excludeWs) ==
  [s \in Sock |->
     IF \E i \in 1 .. Len(cs) :
          /\ cs[i].ws = s
          /\ cs[i].sessionId = sessionId
          /\ cs[i].role = role
          /\ s # excludeWs
          /\ rsock[s] = "open"
     THEN <<msg>> ELSE <<>>]

ConnectionEventOfApp(role, joined) ==
  [from |-> "server",
   data |-> IF joined THEN "app_connected" ELSE "app_disconnected"]

\* the connection_event of a client that joined or left
ConnectionEvent(role, joined) ==
  [from |-> "server",
   data |-> IF role = "app"
            THEN (IF joined THEN "app_connected" ELSE "app_disconnected")
            ELSE (IF joined THEN "agent_connected" ELSE "agent_disconnected")]

\* no handler has run yet
NoOp == [kind |-> "init", ws |-> 0, data |-> None, role |-> None, session |-> None]

\* a relay that registers the role parameter as it comes
ClientRoleAsGiven(roleParam) == roleParam

\* const clientRole = role === 'agent' ? 'agent' : 'app'
ClientRole(roleParam) == IF roleParam = "agent" THEN "agent" ELSE "app"

\* wss.on('connection'): a socket arrives with the role and sessionId of its URL
OnConnection(ws, roleParam, sessionParam) ==
  /\ rsock[ws] = "free"
  /\ rcli' = <<>>
  /\ rop' = [kind |-> "connection", ws |-> ws, data |-> None,
             role |-> roleParam, session |-> sessionParam]
  /\ IF sessionParam # ConfigSession
     THEN /\ rsock' = [rsock EXCEPT ![ws] = "closed"]
          /\ rclose' = 4000
          /\ rinbox' = NoInbox
          /\ UNCHANGED <<clients, rhandlers>>
     ELSE LET clientRole == ClientRole(roleParam)
              client == [ws |-> ws, role |-> clientRole, sessionId |-> sessionParam]
              cs == Append(clients, client)
          IN /\ rsock' = [rsock EXCEPT ![ws] = "open"]
             /\ clients' = cs
             /\ rinbox' = [s \in Sock |->
                             IF \E i \in 1 .. Len(cs) :
                                  /\ cs[i].ws = s
                                  /\ cs[i].sessionId = sessionParam
                                  /\ s # ws
                                  /\ rsock[s] = "open"
                             THEN <<ConnectionEvent(clientRole, TRUE)>> ELSE <<>>]
             /\ rhandlers' = rhandlers \cup {ws}
             /\ rclose' = 0
  /\ UNCHANGED nonRelayVars

\* ws.on('message')
OnMessage(ws, data) ==
  /\ ws \in rhandlers
  /\ rsock[ws] = "open"
  /\ rop' = [kind |-> "message", ws |-> ws, data |-> data,
             role |-> None, session |-> None]
  /\ rclose' = 0
  /\ LET msg == JSONParse(data)
         sender == ClientOf(ws)
     IN IF ~msg.ok \/ sender = NoClient
        THEN /\ rinbox' = NoInbox
             /\ rcli' = <<>>
        ELSE LET targetRole == IF sender.role = "app" THEN "agent" ELSE "app"
             IN /\ rinbox' = BroadcastToRole(clients, sender.sessionId, targetRole,
                                             [from |-> ws, data |-> data], ws)
                /\ rcli' = IF sender.role = "app" /\ msg.isObject
                           THEN (CASE msg.type = "hello" -> <<"onAppConnected">>
                                   [] msg.type = "command_result" -> <<"onCommandResult">>
                                   [] OTHER -> <<"onTelemetry">>)
                           ELSE <<>>
  /\ UNCHANGED <<rsock, clients, rhandlers>>
  /\ UNCHANGED nonRelayVars

\* the transport of an accepted socket goes down: readyState leaves OPEN before
\* the 'close' event is dispatched
SocketDown(ws) ==
  /\ rsock[ws] = "open"
  /\ rsock' = [rsock EXCEPT ![ws] = "closed"]
  /\ rop' = [kind |-> "down", ws |-> ws, data |-> None, role |-> None, session |-> None]
  /\ rinbox' = NoInbox
  /\ rcli' = <<>>
  /\ rclose' = 0
  /\ UNCHANGED <<clients, rhandlers>>
  /\ UNCHANGED nonRelayVars

\* ws.on('close') of an accepted socket
OnClose(ws) ==
  /\ ws \in rhandlers
  /\ rsock[ws] = "closed"
  /\ rop' = [kind |-> "close", ws |-> ws, data |-> None,
             role |-> ClientOf(ws).role,
             session |-> ClientOf(ws).sessionId]
  /\ rclose' = 0
  /\ rhandlers' = rhandlers \ {ws}
  /\ rsock' = [rsock EXCEPT ![ws] = "free"]
  /\ LET client == ClientOf(ws)
     IN IF client = NoClient
        THEN /\ rinbox' = NoInbox
             /\ rcli' = <<>>
             /\ UNCHANGED clients
        ELSE LET cs == ClientsDelete(ws)
             IN /\ clients' = cs
                /\ rinbox' = [s \in Sock |->
                                IF \E i \in 1 .. Len(cs) :
                                     /\ cs[i].ws = s
                                     /\ cs[i].sessionId = client.sessionId
                                     /\ rsock[s] = "open"
                                THEN <<ConnectionEvent(client.role, FALSE)>> ELSE <<>>]
                /\ rcli' = IF client.role = "app" THEN <<"onAppDisconnected">> ELSE <<>>
  /\ UNCHANGED nonRelayVars

\* a socket the relay refused is gone: no handler was registered for it
RejectedGone(ws) ==
  /\ rsock[ws] = "closed"
  /\ ws \notin rhandlers
  /\ rsock' = [rsock EXCEPT ![ws] = "free"]
  /\ rop' = [kind |-> "gone", ws |-> ws, data |-> None, role |-> None, session |-> None]
  /\ rinbox' = NoInbox
  /\ rcli' = <<>>
  /\ rclose' = 0
  /\ UNCHANGED <<clients, rhandlers>>
  /\ UNCHANGED nonRelayVars

NextRelay ==
  \/ \E ws \in Sock, r \in RoleParams, sid \in SessionParams : OnConnection(ws, r, sid)
  \/ \E ws \in Sock, d \in FrameData : OnMessage(ws, d)
  \/ \E ws \in Sock : SocketDown(ws)
  \/ \E ws \in Sock : OnClose(ws)
  \/ \E ws \in Sock : RejectedGone(ws)

(***************************************************************************)
(* SINGLE-CONNECTION SERVER  (websocket-server.ts, startServer)            *)
(***************************************************************************)
\* The server keeps one reference, appConnection; its sockets are the
\* server-side sockets rsock, and rinbox, rcli, rclose and rop record its
\* last handler run as they do for the relay.

\* wss.on('connection'): the socket is refused, or becomes appConnection
ServerOnConnection(ws, sessionParam) ==
  /\ rsock[ws] = "free"
  /\ rcli' = <<>>
  /\ rinbox' = NoInbox
  /\ rop' = [kind |-> "connection", ws |-> ws, data |-> None,
             role |-> None, session |-> sessionParam]
  /\ IF sessionParam # ConfigSession
     THEN /\ rsock' = [rsock EXCEPT ![ws] = "closed"]
          /\ rclose' = 4000
          /\ UNCHANGED <<appConnection, rhandlers>>
     ELSE /\ rsock' = [rsock EXCEPT ![ws] = "open"]
          /\ appConnection' = ws
          /\ rhandlers' = rhandlers \cup {ws}
          /\ rclose' = 0
  /\ UNCHANGED nonServerVars

\* ws.on('message'): the callbacks of the CLI
ServerOnMessage(ws, data) ==
  /\ ws \in rhandlers
  /\ rsock[ws] = "open"
  /\ rop' = [kind |-> "message", ws |-> ws, data |-> data,
             role |-> None, session |-> None]
  /\ rclose' = 0
  /\ rinbox' = NoInbox
  /\ LET msg == JSONParse(data)
     IN rcli' = IF ~msg.ok \/ ~msg.isObject THEN <<>>
                ELSE (CASE msg.type = "hello" -> <<"onAppConnected">>
                        [] msg.type = "command_result" -> <<"onCommandResult">>
                        [] OTHER -> <<"onTelemetry">>)
  /\ UNCHANGED <<rsock, rhandlers, appConnection>>
  /\ UNCHANGED nonServerVars

\* ws.on('close') of an accepted socket: appConnection = null
ServerOnClose(ws) ==
  /\ ws \in rhandlers
  /\ rsock[ws] = "closed"
  /\ rop' = [kind |-> "close", ws |-> ws, data |-> None, role |-> None, session |-> None]
  /\ rclose' = 0
  /\ rinbox' = NoInbox
  /\ rhandlers' = rhandlers \ {ws}
  /\ rsock' = [rsock EXCEPT ![ws] = "free"]
  /\ appConnection' = 0
  /\ rcli' = <<"onAppDisconnected">>
  /\ UNCHANGED nonServerVars

\* sendCommand(cmd): on appConnection, when it is OPEN
SendCommand ==
  /\ rop' = [kind |-> "sendCommand", ws |-> appConnection, data |-> "click",
             role |-> None, session |-> None]
  /\ rinbox' = [s \in Sock |->
                  IF s = appConnection /\ rsock[s] = "open"
                  THEN <<[from |-> "server", data |-> "click"]>> ELSE <<>>]
  /\ rcli' = <<>>
  /\ rclose' = 0
  /\ UNCHANGED <<rsock, rhandlers, appConnection>>
  /\ UNCHANGED nonServerVars

NextServer ==
  \/ \E ws \in Sock, sid \in SessionParams : ServerOnConnection(ws, sid)
  \/ \E ws \in Sock, d \in FrameData : ServerOnMessage(ws, d)
  \/ \E ws \in Sock : SocketDown(ws)
  \/ \E ws \in Sock : ServerOnClose(ws)
  \/ \E ws \in Sock : RejectedGone(ws)
  \/ SendCommand

(***************************************************************************)
(* TARGET RESOLUTION  (CommandExecutor.resolveTarget)                      *)
(***************************************************************************)
\* elements of a document the model enumerates
MaxElems == 2

\* One element: its data-debug-bridge-id, data-testid and id attributes, whether
\* it matches the CSS selector "q", its tag, its text (textContent, or the
\* placeholder when there is no textContent) and whether it lives in a shadow
\* root.  "1x" is an id that is no CSS identifier: `#1x` is not a valid selector.
ElemAll ==
  [bid : {None, "x"}, testid : {None, "x"}, id : {None, "x", "1x"},
   q : BOOLEAN, tag : {"button", "div"}, text : {"", "t", "tu"}, shadow : BOOLEAN]

\* how many of its attributes make an element findable
Features(e) ==
  (IF e.bid # None THEN 1 ELSE 0) + (IF e.testid # None THEN 1 ELSE 0)
  + (IF e.id # None THEN 1 ELSE 0) + (IF e.q THEN 1 ELSE 0)
  + (IF e.text # "" THEN 1 ELSE 0)

\* the elements the model enumerates: at most one such attribute each
Elems == {e \in ElemAll : Features(e) <= 1 /\ (e.text = "" => e.tag = "div")}

Doms == UNION {[1 .. n -> Elems] : n \in 0 .. MaxElems}

\* ElementTarget values: "y" is an identifier no element carries, "!!" is not a
\* valid selector, "1x" is not a valid CSS identifier
StableIds == {None, "x", "y", "1x"}
Selectors == {None, "q", "!!"}
Texts == {None, "t"}
Targets == [defined : {TRUE}, stableId : StableIds, selector : Selectors, text : Texts]
\* a command that carries no target: cmd.target is undefined
UndefinedTarget == [defined |-> FALSE, stableId |-> None, selector |-> None, text |-> None]

\* the selectors resolveTarget builds, as predicates on an element
ByBridgeId(sid) == [attr |-> "bid", val |-> sid]
ByTestId(sid) == [attr |-> "testid", val |-> sid]
ById(sid) == [attr |-> "id", val |-> sid]
BySelector(sel) == [attr |-> "q", val |-> sel]
ByInteractiveTag == [attr |-> "tag", val |-> "button"]

\* whether the selector text parses: `#${id}` needs a CSS identifier, and a
\* caller's selector can be anything
ValidSelector(sel) ==
  CASE sel.attr = "id" -> sel.val # "1x"
    [] sel.attr = "q" -> sel.val # "!!"
    [] OTHER -> TRUE

\* Element.matches(selector)
Matches(e, sel) ==
  CASE sel.attr = "bid" -> e.bid = sel.val
    [] sel.attr = "testid" -> e.testid = sel.val
    [] sel.attr = "id" -> e.id = sel.val
    [] sel.attr = "q" -> e.q /\ sel.val = "q"
    [] sel.attr = "tag" -> e.tag = sel.val

\* root.querySelectorAll(selector) on the document: light-DOM elements in order
LightAll(dom, sel) ==
  SelectSeqOf([i \in 1 .. Len(dom) |-> i],
              {i \in 1 .. Len(dom) : ~dom[i].shadow /\ Matches(dom[i], sel)})

\* the matches inside shadow roots, in the order the hosts are visited
ShadowAll(dom, sel) ==
  SelectSeqOf([i \in 1 .. Len(dom) |-> i],
              {i \in 1 .. Len(dom) : dom[i].shadow /\ Matches(dom[i], sel)})

\* document.querySelector(selector): 0 is null
QuerySelector(dom, sel) ==
  IF LightAll(dom, sel) = <<>> THEN 0 ELSE Head(LightAll(dom, sel))

\* document.getElementById(id)
GetElementById(dom, id) == QuerySelector(dom, ById(id))

\* deepQuerySelectorAll(selector) -> queryAllShadowRoots(document, ...)
DeepQuerySelectorAll(dom, sel) == LightAll(dom, sel) \o ShadowAll(dom, sel)

\* deepQuerySelector(selector)
DeepQuerySelector(dom, sel) ==
  IF QuerySelector(dom, sel) # 0 THEN QuerySelector(dom, sel)
  ELSE IF DeepQuerySelectorAll(dom, sel) = <<>> THEN 0
       ELSE Head(DeepQuerySelectorAll(dom, sel))

\* candidate.textContent || placeholder, then text?.includes(target.text)
TextIncludes(e, text) ==
  \/ e.text = text
  \/ (e.text = "tu" /\ text = "t")

\* the first candidate of the interactive-tag set whose text includes `text`
FirstByText(dom, text) ==
  LET all == DeepQuerySelectorAll(dom, ByInteractiveTag)
      hits == SelectSeqOf(all, {i \in 1 .. Len(dom) : TextIncludes(dom[i], text)})
  IN IF hits = <<>> THEN 0 ELSE Head(hits)

Found(el, via) == [status |-> "ok", el |-> el, via |-> via]
Thrown(what) == [status |-> what, el |-> 0, via |-> None]

\* the stableId step: {el, threw}
ResolveStableId(target, dom) ==
  LET sid == target.stableId
      byBid == DeepQuerySelector(dom, ByBridgeId(sid))
      light == IF QuerySelector(dom, ByTestId(sid)) # 0
               THEN QuerySelector(dom, ByTestId(sid))
               ELSE GetElementById(dom, sid)
      deepTest == DeepQuerySelector(dom, ByTestId(sid))
  IN IF byBid # 0 THEN [el |-> byBid, threw |-> FALSE]
     ELSE IF light # 0 THEN [el |-> light, threw |-> FALSE]
     ELSE IF deepTest # 0 THEN [el |-> deepTest, threw |-> FALSE]
     ELSE IF ~ValidSelector(ById(sid)) THEN [el |-> 0, threw |-> TRUE]
     ELSE [el |-> DeepQuerySelector(dom, ById(sid)), threw |-> FALSE]

\* the selector step: {el, threw}
ResolveSelector(target, dom) ==
  IF ~ValidSelector(BySelector(target.selector)) THEN [el |-> 0, threw |-> TRUE]
  ELSE IF QuerySelector(dom, BySelector(target.selector)) # 0
       THEN [el |-> QuerySelector(dom, BySelector(target.selector)), threw |-> FALSE]
       ELSE [el |-> DeepQuerySelector(dom, BySelector(target.selector)), threw |-> FALSE]

\* resolveTarget(target): the element (its index in the document), or what is
\* thrown: "notFound" ({code: 'TARGET_NOT_FOUND'}), "syntaxError" (the
\* DOMException of an invalid selector) or "typeError" (target is undefined)
ResolveTarget(target, dom) ==
  IF ~target.defined THEN Thrown("typeError")
  ELSE LET s1 == IF target.stableId # None THEN ResolveStableId(target, dom)
                 ELSE [el |-> 0, threw |-> FALSE]
       IN IF s1.threw THEN Thrown("syntaxError")
          ELSE IF s1.el # 0 THEN Found(s1.el, "stableId")
          ELSE LET s2 == IF target.selector # None THEN ResolveSelector(target, dom)
                         ELSE [el |-> 0, threw |-> FALSE]
               IN IF s2.threw THEN Thrown("syntaxError")
                  ELSE IF s2.el # 0 THEN Found(s2.el, "selector")
                  ELSE IF target.text # None /\ FirstByText(dom, target.text) # 0
                       THEN Found(FirstByText(dom, target.text), "text")
                       ELSE Thrown("notFound")

NotResolved == [status |-> "pending", el |-> 0, via |-> None]

\* one call of resolveTarget(rtarget) on the document rdom
Resolve ==
  /\ rresult = NotResolved
  /\ rresult' = ResolveTarget(rtarget, rdom)
  /\ UNCHANGED <<rdom, rtarget, rtree, getStableId>>
  /\ UNCHANGED nonResolveVars

NextResolve == Resolve

(***************************************************************************)
(* UI TREE  (UiTreeBuilder.build) AND A CLICK ON ONE OF ITS ITEMS          *)
(***************************************************************************)
\* The elements of the pages a ui_tree is built from: a button or a div that
\* has at most one of data-debug-bridge-id (left by an earlier build or set
\* by the page), data-testid, id and text.
TreeElems == {e \in ElemAll : Features(e) <= 1 /\ ~e.q}
TreeDoms == UNION {[1 .. n -> TreeElems] : n \in 0 .. MaxElems}

\* no ui_tree was built yet
NoTree == [built |-> FALSE, items |-> <<>>, clicked |-> 0]

\* el matches INTERACTIVE_SELECTORS
Interactive(e) == e.tag = "button"

\* queryAllRoots(document, INTERACTIVE_SELECTORS, ...): the interactive
\* elements in the order they are visited, the document's before those of
\* the shadow roots
QueryAllRoots(dom) ==
  LET idx == [i \in 1 .. Len(dom) |-> i]
  IN SelectSeqOf(idx, {i \in 1 .. Len(dom) : ~dom[i].shadow /\ Interactive(dom[i])})
     \o SelectSeqOf(idx, {i \in 1 .. Len(dom) : dom[i].shadow /\ Interactive(dom[i])})

\* the text of more than 20 characters of the model, and its first 20
LongText == "abcdefghijklmnopqrstu"
LongTextCut == "abcdefghijklmnopqrst"

\* String.prototype.trim, on the texts of the model (" " is white space only)
Trim(text) == IF text = " " THEN "" ELSE text

\* text.substring(0, n): the texts of the model but LongText are shorter
\* than 20 characters
Substring(text, n) == IF text = LongText /\ n = 20 THEN LongTextCut ELSE text

\* a value that is truthy in `if (testId)`: the attribute is there and not ''
Truthy(v) == v # None /\ v # ""

\* id.startsWith(':'): the ids a framework generates (":r1:")
StartsWithColon(id) == id = ":r1:"

\* replace(/[^a-zA-Z0-9]/g, '-') on `#${el.id}`
SanitizedIdPath(id) == IF id = ":r1:" THEN "--r1-" ELSE "-" \o id

\* cssPath(el) with the characters that are no letters or digits replaced by
\* "-": `#id` when the element has an id; else the tag, and the place among
\* the siblings of the same tag when there are several; the path of an
\* element of a shadow root goes through its root
CssPathId(dom, i) ==
  LET same == {j \in 1 .. Len(dom) :
                 dom[j].tag = dom[i].tag /\ dom[j].shadow = dom[i].shadow}
      nth == Cardinality({j \in same : j <= i})
      own == IF Cardinality(same) > 1
             THEN dom[i].tag \o "-nth-of-type-" \o ToString(nth) \o "-"
             ELSE dom[i].tag
  IN IF Truthy(dom[i].id) THEN SanitizedIdPath(dom[i].id)
     ELSE IF dom[i].shadow THEN "host-----shadow---" \o own ELSE own

\* a generateStableId that looks at the id attribute before data-testid
GenerateStableIdIdFirst(dom, i) ==
  LET text == Substring(Trim(dom[i].text), 20)
  IN IF Truthy(dom[i].id) /\ ~StartsWithColon(dom[i].id) THEN dom[i].id
     ELSE IF Truthy(dom[i].testid) THEN dom[i].testid
     ELSE IF text # "" THEN dom[i].tag \o "-" \o text
     ELSE CssPathId(dom, i)

\* generateStableId(el): data-testid, else an id that does not start with
\* ':', else role and a hash of the first 20 characters of the trimmed text,
\* else the css path.  The hash is a function of the text alone; the texts
\* of the model have different hashes.
GenerateStableId(dom, i) ==
  LET text == Substring(Trim(dom[i].text), 20)
  IN IF Truthy(dom[i].testid) THEN dom[i].testid
     ELSE IF Truthy(dom[i].id) /\ ~StartsWithColon(dom[i].id) THEN dom[i].id
     ELSE IF text # "" THEN dom[i].tag \o "-" \o text
     ELSE CssPathId(dom, i)

\* the config has no getStableId, or it returns null for every element
NoGetStableId == [i \in 1 .. MaxElems |-> None]

\* buildItem(el, getStableId): the item, by the element it was built from and
\* its stableId, getStableId?.(el) ?? generateStableId(el)
BuildItem(dom, i) ==
  [el |-> i,
   stableId |-> IF getStableId[i] # None THEN getStableId[i]
                ELSE GenerateStableId(dom, i)]

\* the callback of build(): `if (seen.has(el)) return; seen.add(el)` keeps
\* the first visit of every element
RECURSIVE Seen(_)
Seen(visits) ==
  IF visits = <<>> THEN <<>>
  ELSE LET front == Seen(SubSeq(visits, 1, Len(visits) - 1))
           el == visits[Len(visits)]
       IN IF el \in SeqToSet(front) THEN front ELSE Append(front, el)

\* a buildItem that leaves a data-debug-bridge-id the element already has
SetAttributeOnce(e, stableId) ==
  IF e.bid # None THEN e ELSE [e EXCEPT !.bid = stableId]

\* el.setAttribute('data-debug-bridge-id', stableId)
SetAttribute(e, stableId) == [e EXCEPT !.bid = stableId]

\* a request_ui_tree: UiTreeBuilder.build() makes one item per interactive
\* element and stores the item's stableId in the element's
\* data-debug-bridge-id attribute
BuildUiTree ==
  /\ ~rtree.built
  /\ LET visited == Seen(QueryAllRoots(rdom))
     IN /\ rtree' = [built |-> TRUE,
                     items |-> [k \in 1 .. Len(visited) |-> BuildItem(rdom, visited[k])],
                     clicked |-> 0]
        /\ rdom' = [i \in 1 .. Len(rdom) |->
                      IF i \in SeqToSet(visited)
                      THEN SetAttribute(rdom[i], BuildItem(rdom, i).stableId)
                      ELSE rdom[i]]
  /\ UNCHANGED <<rtarget, rresult, getStableId>>
  /\ UNCHANGED nonResolveVars

\* a click whose target is {stableId: item.stableId}, for item k of the
\* response: click() -> resolveTarget(target)
ClickItem(k) ==
  /\ rtree.built
  /\ k \in 1 .. Len(rtree.items)
  /\ rtarget' = [defined |-> TRUE, stableId |-> rtree.items[k].stableId,
                 selector |-> None, text |-> None]
  /\ rresult' = ResolveTarget(rtarget', rdom)
  /\ rtree' = [rtree EXCEPT !.clicked = k]
  /\ UNCHANGED <<rdom, getStableId>>
  /\ UNCHANGED nonResolveVars

NextTree ==
  \/ BuildUiTree
  \/ \E k \in 1 .. MaxElems : ClickItem(k)

\* The pages the assignment of stable ids is checked on: a button that may
\* have a data-testid (possibly empty), an id (possibly generated by a
\* framework), a text (possibly white space, possibly longer than 20
\* characters), in the document or in a shadow root, followed by plain
\* elements; and what the application's getStableId returns for the button.
IdElems ==
  [bid : {None}, testid : {None, "", "x"}, id : {None, "y", ":r1:"}, q : {FALSE},
   tag : {"button"}, text : {"", " ", "t", LongText}, shadow : BOOLEAN]
PlainElems ==
  [bid : {None}, testid : {None}, id : {None}, q : {FALSE},
   tag : {"button", "div"}, text : {""}, shadow : {FALSE}]
IdDoms ==
  {<<e>> \o rest : e \in IdElems,
                   rest \in UNION {[1 .. n -> PlainElems] : n \in 0 .. MaxElems - 1}}
CustomIds == {None, "", "c"}
GetStableIds == {[NoGetStableId EXCEPT ![1] = c] : c \in CustomIds}

NextIds == BuildUiTree

(***************************************************************************)
(* COMMAND EXECUTOR  (CommandExecutor.execute, captureScreenshot)          *)
(***************************************************************************)
\* commands one run hands to execute()
MaxCommands == 2
\* connections of the bridge one run goes through
MaxConns == 2
\* how long a handler runs, in ms (performance.now() - start, rounded)
Elapsed == {0, 7}

\* the closed ErrorCode union of the message types
ErrorCode ==
  {"TARGET_NOT_FOUND", "TARGET_NOT_VISIBLE", "TARGET_DISABLED", "TIMEOUT",
   "EVAL_DISABLED", "EVAL_ERROR", "NAVIGATION_FAILED", "INVALID_COMMAND",
   "UNKNOWN_ERROR"}

\* the CommandType union
ActionTypes == {"click", "type", "navigate", "evaluate", "scroll", "hover", "select", "focus"}
RequestTypes == {"request_ui_tree", "request_dom_snapshot", "request_screenshot", "request_state"}
CommandTypes == ActionTypes \cup RequestTypes
\* a parsed frame can carry any type: "connection_event" is one the relay sends
InboundTypes == CommandTypes \cup {"connection_event"}
TargetTypes == {"click", "type", "hover", "select", "focus"}

\* getBrowserState(): the built-in scopes, in the order they are listed
BrowserScopes ==
  <<"cookies", "localStorage", "sessionStorage", "location", "navigator", "screen", "viewport">>
\* the scopes of the application's getCustomState(), in order
CustomScopes == <<"cart">>
\* the scope a request_state can name: none, a built-in one, a custom one, an unknown one
ScopeParams == {None, "cookies", "cart", "bogus"}

\* what the evaluated code does: return a value JSON.stringify accepts, return
\* one it throws on (a cycle, a BigInt), throw an Error, or throw an object
\* that carries its own code
EvalOutcomes == {"value", "unserializable", "throwsError", "throwsCoded"}

\* the document the executor acts on, and the targets commands name
ExecDom ==
  <<[bid |-> None, testid |-> "x", id |-> None, q |-> FALSE, tag |-> "button",
     text |-> "", shadow |-> FALSE],
    [bid |-> None, testid |-> None, id |-> None, q |-> FALSE, tag |-> "button",
     text |-> "t", shadow |-> TRUE],
    [bid |-> None, testid |-> "d", id |-> None, q |-> FALSE, tag |-> "button",
     text |-> "", shadow |-> FALSE],
    [bid |-> None, testid |-> "h", id |-> None, q |-> FALSE, tag |-> "button",
     text |-> "", shadow |-> FALSE]>>

\* the elements of that document that have the disabled attribute, and the
\* ones styled display: none
ExecDisabled == {3}
ExecHidden == {4}

ExecTargets ==
  {UndefinedTarget,
   [defined |-> TRUE, stableId |-> None, selector |-> None, text |-> None],
   [defined |-> TRUE, stableId |-> "x", selector |-> None, text |-> None],
   [defined |-> TRUE, stableId |-> "y", selector |-> None, text |-> None],
   [defined |-> TRUE, stableId |-> "d", selector |-> None, text |-> None],
   [defined |-> TRUE, stableId |-> "h", selector |-> None, text |-> None],
   [defined |-> TRUE, stableId |-> None, selector |-> "!!", text |-> None]}

\* resolveTarget on the executor's document, for each of these targets
ExecResolution == [t \in ExecTargets |-> ResolveTarget(t, ExecDom)]

\* the two executors of the repository: the one that imports html2canvas-pro
\* and awaits the capture ("pro"), and the one that looks for window.html2canvas
Builds == {"pro", "legacy"}

\* the config of a bridge that is not running
ParkedConfig ==
  [enableEval |-> FALSE, getCustomState |-> FALSE, getStableId |-> FALSE, build |-> "pro"]

\* what the application's config says about enableEval: nothing, an explicit
\* undefined, false or true
EvalOptions == {"absent", "undefined", "false", "true"}

\* resolvedConfig = {enableEval: false, ...config}, as `!this.config.enableEval`
\* reads it: the default stays unless the config has the property, and an
\* undefined counts as false
ResolveEnableEval(option) ==
  LET resolved == IF option = "absent" THEN "false" ELSE option
  IN resolved = "true"

Configs == [enableEval : {ResolveEnableEval(o) : o \in EvalOptions},
            getCustomState : BOOLEAN, getStableId : BOOLEAN,
            build : Builds]

\* a frame on the wire; the fields a frame type does not have are None
\* (size: whose width and height a screenshot frame carries)
Frame(type, requestId) ==
  [type |-> type, requestId |-> requestId, requestType |-> None, success |-> FALSE,
   code |-> None, duration |-> 0, scope |-> None, data |-> None, size |-> None,
   conn |-> xconn]

\* err.code ?? 'UNKNOWN_ERROR'
CodeOf(thrownCode) == IF thrownCode = None THEN "UNKNOWN_ERROR" ELSE thrownCode

\* Math.round(performance.now() - start), the clock having advanced by `elapsed`
Duration(elapsed) == elapsed

CommandResultNoRequestType(cmd, thrown, thrownCode, elapsed) ==
  [Frame("command_result", cmd.requestId) EXCEPT
     !.requestType = "command",
     !.success = ~thrown,
     !.code = IF thrown THEN CodeOf(thrownCode) ELSE None,
     !.duration = Duration(elapsed)]

\* the command_result execute() sends after the switch
CommandResult(cmd, thrown, thrownCode, elapsed) ==
  [Frame("command_result", cmd.requestId) EXCEPT
     !.requestType = cmd.type,
     !.success = ~thrown,
     !.code = IF thrown THEN CodeOf(thrownCode) ELSE None,
     !.duration = Duration(elapsed)]

\* a state_update frame: it has no requestId field (0)
StateUpdate(scope) == [Frame("state_update", 0) EXCEPT !.scope = scope]

\* the code property of what resolveTarget throws: the DOMException of an
\* invalid selector has the legacy numeric code 12, a TypeError has none
ThrownCode(status) ==
  CASE status = "notFound" -> "TARGET_NOT_FOUND"
    [] status = "syntaxError" -> "12"
    [] OTHER -> None

\* how the switch of execute() ends
\* (effects: what the handler did to the page, see Effects below)
Completes(pre) ==
  [pre |-> pre, end |-> "result", thrown |-> FALSE, code |-> None, serializable |-> TRUE,
   effects |-> <<>>]
Throws(pre, code) ==
  [pre |-> pre, end |-> "result", thrown |-> TRUE, code |-> code, serializable |-> TRUE,
   effects |-> <<>>]
ReturnsFallsThrough(pre) == Completes(pre)
Returns(pre) ==
  [pre |-> pre, end |-> "return", thrown |-> FALSE, code |-> None, serializable |-> TRUE,
   effects |-> <<>>]
Awaits ==
  [pre |-> <<>>, end |-> "await", thrown |-> FALSE, code |-> None, serializable |-> TRUE,
   effects |-> <<>>]

\* what click / type / hover / select / focus do to the element they resolved:
\* the events they dispatch on it and the writes to its value, in order
Effects(type, el) ==
  LET on(what) == [el |-> el, what |-> what]
  IN CASE type = "click" -> <<on("click")>>
       [] type = "type" -> <<on("focus()"), on("value"), on("input"), on("change")>>
       [] type = "hover" -> <<on("mouseenter"), on("mouseover")>>
       [] type = "select" -> <<on("value"), on("change")>>
       [] type = "focus" -> <<on("focus()")>>

\* the request_state branch
RequestState(cmd) ==
  LET browser == [i \in 1 .. Len(BrowserScopes) |-> StateUpdate(BrowserScopes[i])]
      custom == [i \in 1 .. Len(CustomScopes) |-> StateUpdate(CustomScopes[i])]
  IN IF cmd.scope # None
     THEN LET own == IF cmd.scope \in SeqToSet(BrowserScopes)
                     THEN <<StateUpdate(cmd.scope)>> ELSE <<>>
          IN IF ~xcfg.getCustomState THEN Returns(own)
             ELSE IF cmd.callbackThrows THEN Throws(own, None)
             ELSE IF cmd.scope \in SeqToSet(CustomScopes)
                  THEN Returns(own \o <<StateUpdate(cmd.scope)>>)
                  ELSE Returns(own)
     ELSE IF ~xcfg.getCustomState THEN Returns(browser)
          ELSE IF cmd.callbackThrows THEN Throws(browser, None)
          ELSE Returns(browser \o custom)

\* new Function(cmd.code)() ran: the supplied code was executed
Evaluated == <<[el |-> 0, what |-> "eval"]>>

\* what the supplied code leads to once it is run
EvaluateCode(cmd) ==
  CASE cmd.evalOutcome = "value" -> [Completes(<<>>) EXCEPT !.effects = Evaluated]
    [] cmd.evalOutcome = "unserializable" ->
         [Completes(<<>>) EXCEPT !.serializable = FALSE, !.effects = Evaluated]
    [] cmd.evalOutcome = "throwsError" -> [Throws(<<>>, None) EXCEPT !.effects = Evaluated]
    [] cmd.evalOutcome = "throwsCoded" ->
         [Throws(<<>>, "E_CUSTOM") EXCEPT !.effects = Evaluated]

EvaluateUnguarded(cmd) == EvaluateCode(cmd)

\* the evaluate branch
Evaluate(cmd) ==
  IF ~xcfg.enableEval THEN Throws(<<>>, "EVAL_DISABLED")
  ELSE EvaluateCode(cmd)

\* the legacy captureScreenshot with no window.html2canvas: it answers at once
\* with an empty image
ScreenshotUnavailable(cmd) ==
  Returns(<<[Frame("screenshot", cmd.requestId) EXCEPT !.data = "", !.size = "viewport"]>>)

\* the try block of execute(): the switch on cmd.type
Switch(cmd) ==
  CASE cmd.type \in TargetTypes ->
         LET r == ExecResolution[cmd.target]
         IN IF r.status = "ok"
            THEN [Completes(<<>>) EXCEPT !.effects = Effects(cmd.type, r.el)]
            ELSE Throws(<<>>, ThrownCode(r.status))
    [] cmd.type \in {"navigate", "scroll"} -> Completes(<<>>)
    [] cmd.type = "evaluate" -> Evaluate(cmd)
    [] cmd.type = "request_ui_tree" ->
         IF xcfg.getStableId /\ cmd.callbackThrows THEN Throws(<<>>, None)
         ELSE Returns(<<Frame("ui_tree", cmd.requestId)>>)
    [] cmd.type = "request_dom_snapshot" -> Returns(<<Frame("dom_snapshot", cmd.requestId)>>)
    [] cmd.type = "request_screenshot" ->
         IF xcfg.build = "legacy" /\ ~cmd.rasterizer THEN ScreenshotUnavailable(cmd)
         ELSE Awaits
    [] cmd.type = "request_state" -> RequestState(cmd)
    [] OTHER -> Throws(<<>>, "INVALID_COMMAND")

\* send(msg) for each frame of a handler run: the frames that reach the wire.
\* Nothing does unless the socket is Open.
Send(frames) == IF xopen THEN frames ELSE <<>>

\* how many frames of a run are command_result frames / carry the requestId
CountResults(frames, requestId) ==
  Cardinality({i \in 1 .. Len(frames) :
                 frames[i].type = "command_result" /\ frames[i].requestId = requestId})

CountFrames(frames, requestId) ==
  Cardinality({i \in 1 .. Len(frames) : frames[i].requestId = requestId})

\* the inputs of one command: its type and what its handler meets
CommandInputs ==
  [type : InboundTypes, target : ExecTargets, scope : ScopeParams,
   evalOutcome : EvalOutcomes, callbackThrows : BOOLEAN, rasterizer : BOOLEAN]

\* the inputs a command of this type does not read are fixed
Relevant(c) ==
  /\ (c.type \notin TargetTypes => c.target = UndefinedTarget)
  /\ (c.type # "request_state" => c.scope = None)
  /\ (c.type # "evaluate" => c.evalOutcome = "value")
  /\ (c.type \notin {"request_state", "request_ui_tree"} => ~c.callbackThrows)
  /\ (c.type # "request_screenshot" => c.rasterizer)

RelevantInputs == {c \in CommandInputs : Relevant(c)}

\* no handler has run yet
NoRun == [kind |-> "none", requestId |-> 0, type |-> None, scope |-> None,
          end |-> None, serializable |-> TRUE, frames |-> <<>>,
          target |-> UndefinedTarget, effects |-> <<>>, rasterized |-> None,
          thrown |-> FALSE, code |-> None, conn |-> 0]

\* nothing is known of a requestId that was not received
NoTally == [received |-> FALSE, done |-> FALSE, open |-> FALSE, results |-> 0, frames |-> 0]

\* an executor that serializes: a command that arrives while a capture is
\* awaited waits behind it and sends nothing yet
RunOfQueued(cmd, elapsed) ==
  LET sw == Switch(cmd)
      last == IF sw.end = "result" /\ sw.serializable
              THEN <<CommandResult(cmd, sw.thrown, sw.code, elapsed)>>
              ELSE <<>>
      queued == xpending # {}
  IN [kind |-> "execute", requestId |-> cmd.requestId, type |-> cmd.type,
      scope |-> cmd.scope, end |-> IF queued THEN "await" ELSE sw.end,
      serializable |-> sw.serializable,
      frames |-> IF queued THEN <<>> ELSE Send(sw.pre \o last),
      target |-> cmd.target, effects |-> IF queued THEN <<>> ELSE sw.effects,
      rasterized |-> IF cmd.type = "request_screenshot" /\ sw.end = "return"
                     THEN "unavailable" ELSE None,
      thrown |-> sw.thrown, code |-> sw.code, conn |-> xconn]

\* what one run of execute() puts on the wire and how it ends
RunOf(cmd, elapsed) ==
  LET sw == Switch(cmd)
      last == IF sw.end = "result" /\ sw.serializable
              THEN <<CommandResult(cmd, sw.thrown, sw.code, elapsed)>>
              ELSE <<>>
  IN [kind |-> "execute", requestId |-> cmd.requestId, type |-> cmd.type,
      scope |-> cmd.scope, end |-> sw.end, serializable |-> sw.serializable,
      frames |-> Send(sw.pre \o last), target |-> cmd.target, effects |-> sw.effects,
      rasterized |-> IF cmd.type = "request_screenshot" /\ sw.end = "return"
                     THEN "unavailable" ELSE None,
      thrown |-> sw.thrown, code |-> sw.code, conn |-> xconn]

\* ws.onmessage -> commandExecutor.execute(msg), up to its first await
Execute(c, elapsed) ==
  /\ xopen
  /\ xnext <= MaxCommands
  /\ \E run \in {RunOf([requestId |-> xnext, type |-> c.type, target |-> c.target,
                        scope |-> c.scope, evalOutcome |-> c.evalOutcome,
                        callbackThrows |-> c.callbackThrows,
                        rasterizer |-> c.rasterizer], elapsed)} :
        /\ xrun' = run
        /\ xtally' = [xtally EXCEPT ![xnext] =
                        [received |-> TRUE, done |-> run.end # "await", open |-> TRUE,
                         results |-> CountResults(run.frames, xnext),
                         frames |-> CountFrames(run.frames, xnext)]]
        /\ xpending' = IF run.end = "await"
                       THEN xpending \cup {[requestId |-> xnext, type |-> c.type,
                                            conn |-> xconn]}
                       ELSE xpending
  /\ xnext' = xnext + 1
  /\ UNCHANGED <<xcfg, xopen, xconn>>
  /\ UNCHANGED nonExecVars

\* captureScreenshot without its catch block: a failed capture answers like
\* a delivered one
ScreenshotFrameUncaught(requestId, ok) ==
  [Frame("screenshot", requestId) EXCEPT !.data = "png", !.size = "canvas"]

\* the frame captureScreenshot sends when the rasterizer delivered a canvas,
\* and the one it sends from its catch block
ScreenshotFrame(requestId, ok) ==
  IF ok THEN [Frame("screenshot", requestId) EXCEPT !.data = "png", !.size = "canvas"]
  ELSE IF xcfg.build = "pro"
       THEN [Frame("screenshot", requestId) EXCEPT
               !.data = "", !.size = "viewport", !.code = "SCREENSHOT_FAILED"]
       ELSE [Frame("command_result", requestId) EXCEPT
               !.requestType = "request_screenshot", !.success = FALSE,
               !.code = "SCREENSHOT_FAILED", !.duration = 0]

\* captureScreenshot resumes: the rasterizer delivered a canvas, or failed
ScreenshotSettles(p, ok) ==
  /\ p \in xpending
  /\ xpending' = xpending \ {p}
  /\ LET wire == Send(<<ScreenshotFrame(p.requestId, ok)>>)
     IN /\ xrun' = [kind |-> "settle", requestId |-> p.requestId, type |-> p.type,
                    scope |-> None, end |-> "return", serializable |-> TRUE,
                    frames |-> wire, target |-> UndefinedTarget, effects |-> <<>>,
                    rasterized |-> IF ok THEN "ok" ELSE "failed",
                    thrown |-> FALSE, code |-> None, conn |-> p.conn]
        /\ xtally' = [xtally EXCEPT ![p.requestId] =
                        [@ EXCEPT !.done = TRUE,
                                  !.results = @ + CountResults(wire, p.requestId),
                                  !.frames = @ + CountFrames(wire, p.requestId)]]
  /\ UNCHANGED <<xcfg, xopen, xconn, xnext>>
  /\ UNCHANGED nonExecVars

\* the socket closes (ws.readyState leaves OPEN): the commands still executing
\* no longer have a socket that stayed Open
ExecSocketCloses ==
  /\ xopen
  /\ xopen' = FALSE
  /\ xtally' = [r \in DOMAIN xtally |->
                  IF xtally[r].received /\ ~xtally[r].done
                  THEN [xtally[r] EXCEPT !.open = FALSE] ELSE xtally[r]]
  /\ xrun' = NoRun
  /\ UNCHANGED <<xcfg, xconn, xnext, xpending>>
  /\ UNCHANGED nonExecVars

\* a reconnect: connect() opens a new socket and send() uses it from now on
ExecSocketReopens ==
  /\ ~xopen
  /\ xconn < MaxConns
  /\ xopen' = TRUE
  /\ xconn' = xconn + 1
  /\ xrun' = NoRun
  /\ UNCHANGED <<xcfg, xnext, xpending, xtally>>
  /\ UNCHANGED nonExecVars

NextExec ==
  \/ \E c \in RelevantInputs, elapsed \in Elapsed : Execute(c, elapsed)
  \/ \E p \in xpending, ok \in BOOLEAN : ScreenshotSettles(p, ok)
  \/ ExecSocketCloses
  \/ ExecSocketReopens

(***************************************************************************)
(* CONNECTION MANAGER  (createDebugBridge)                                 *)
(***************************************************************************)
\* WebSockets of the bridge that are in flight at one time
MaxLiveSockets == 2
\* reconnect timers that are set at one time
MaxTimers == 2
\* the reconnect settings of the bridge's config, in ms
ReconnectMaxAttempts == 2
ReconnectBaseDelayMs == 2
ReconnectMaxDelayMs == 3

BSock == 1 .. MaxLiveSockets
TimerIds == 1 .. MaxTimers

\* a timer that is not set, and the timers table with none set
NoTimer == [live |-> FALSE, delay |-> 0, n |-> 0]
NoTimers == [t \in TimerIds |-> NoTimer]

\* nothing has happened yet
NoEvent ==
  [kind |-> "none", created |-> 0, scheduled |-> 0, terminal |-> FALSE,
   fired |-> NoTimer, sent |-> <<>>, passed |-> <<>>, on |-> 0, socket |-> 0]

\* nothing was sent on any socket
NoWire == [s \in BSock |-> <<>>]

\* the sockets whose handlers can still run
Live == {s \in BSock : readyState[s] # "none"}

\* what `new WebSocket` and setTimeout return: the first socket, the first
\* timer, that is not in use (0: the model has none left)
NewSocket ==
  IF Live = BSock THEN 0
  ELSE CHOOSE s \in BSock : readyState[s] = "none" /\ \A r \in 1 .. s - 1 : r \in Live
NewTimer(tm) ==
  IF \A i \in TimerIds : tm[i].live THEN 0
  ELSE CHOOSE i \in TimerIds : ~tm[i].live /\ \A r \in 1 .. i - 1 : tm[r].live

\* clearTimeout(id) under `if (reconnectTimeout)`
ClearTimeout(tm, id) == IF id = 0 THEN tm ELSE [tm EXCEPT ![id] = NoTimer]

ReconnectDelayUncapped(attempt) == ReconnectBaseDelayMs * Pow2(attempt - 1)

\* Math.min(base * Math.pow(2, reconnectAttempt - 1), reconnectMaxDelayMs)
ReconnectDelay(attempt) ==
  Min(ReconnectBaseDelayMs * Pow2(attempt - 1), ReconnectMaxDelayMs)

\* send(msg) without the readyState test
BridgeSendUnchecked(rs, frames) == IF bws # 0 THEN frames ELSE <<>>

\* send(msg) for each frame: on `ws`, and only when it is OPEN
BridgeSend(rs, frames) == IF bws # 0 /\ rs[bws] = "open" THEN frames ELSE <<>>

\* PROTOCOL_VERSION of debug-bridge-types
ProtocolVersion == 1

\* resolvedConfig.sessionId
BridgeSessionId == "s1"

\* the object send() serializes for a message of the given type:
\* { protocolVersion, sessionId, timestamp: Date.now(), ...msg }
SendEnvelope(type) ==
  [type |-> type] @@
  [protocolVersion |-> ProtocolVersion, sessionId |-> BridgeSessionId, timestamp |-> 0]

\* the frames the open handler sends before it starts the collectors
Handshake == <<"hello", "capabilities", "dom_snapshot", "ui_tree">>

\* what the application and the collectors pass to send() outside the open
\* handler: sendState() makes a state_update, the console hook a console frame
Messages == {"state_update", "console"}

\* the record of the first two frames of each socket, after `sent` went out
\* on socket `on`
WireAfter(w, on, sent) ==
  IF sent = <<>> THEN w
  ELSE [w EXCEPT ![on] = SubSeq(@ \o sent, 1, Min(2, Len(@ \o sent)))]

\* connect(): what it leaves in the bridge's variables, given the timer
\* reference and the timers it finds
Connect(rt, tm) ==
  IF bws # 0 /\ readyState[bws] = "open"
  THEN [noop |-> TRUE, created |-> 0, ws |-> bws, reconnectTimeout |-> rt,
        timers |-> tm, intentionalDisconnect |-> intentionalDisconnect]
  ELSE [noop |-> FALSE, created |-> NewSocket, ws |-> NewSocket, reconnectTimeout |-> 0,
        timers |-> ClearTimeout(tm, rt), intentionalDisconnect |-> FALSE]

\* the application calls connect()
AppConnect ==
  /\ \E c \in {Connect(reconnectTimeout, timers)} :
       /\ c.noop \/ c.created # 0
       /\ bws' = c.ws
       /\ reconnectTimeout' = c.reconnectTimeout
       /\ timers' = c.timers
       /\ intentionalDisconnect' = c.intentionalDisconnect
       /\ readyState' = IF c.created # 0
                        THEN [readyState EXCEPT ![c.created] = "connecting"]
                        ELSE readyState
       /\ bev' = [NoEvent EXCEPT !.kind = "connect", !.created = c.created]
  /\ rfails' = 0
  /\ terminals' = 0
  /\ disconnected' = FALSE
  /\ UNCHANGED <<bcfg, attempting, reconnectAttempt, hooksRef, hooksLeaked, closes, bwire>>
  /\ UNCHANGED nonBridgeVars

\* a reconnect timer fires, timers[t].delay ms or more after setTimeout set
\* it: reconnectTimeout = null; connect()
TimerFires(t) ==
  /\ timers[t].live
  /\ \E c \in {Connect(0, [timers EXCEPT ![t] = NoTimer])} :
       /\ c.noop \/ c.created # 0
       /\ bws' = c.ws
       /\ reconnectTimeout' = c.reconnectTimeout
       /\ timers' = c.timers
       /\ intentionalDisconnect' = c.intentionalDisconnect
       /\ readyState' = IF c.created # 0
                        THEN [readyState EXCEPT ![c.created] = "connecting"]
                        ELSE readyState
       /\ attempting' = IF c.created # 0 THEN attempting \cup {c.created}
                        ELSE attempting
       /\ bev' = [NoEvent EXCEPT !.kind = "timer", !.created = c.created,
                                 !.fired = timers[t]]
  /\ UNCHANGED <<bcfg, reconnectAttempt, hooksRef, hooksLeaked, closes, rfails,
                 terminals, disconnected, bwire>>
  /\ UNCHANGED nonBridgeVars

\* ws.onopen of socket s
WsOnOpen(s) ==
  /\ readyState[s] = "connecting"
  /\ readyState' = [readyState EXCEPT ![s] = "open"]
  /\ attempting' = attempting \ {s}
  /\ reconnectAttempt' = 0
  /\ hooksLeaked' = (hooksLeaked \/ hooksRef)
  /\ hooksRef' = TRUE
  /\ bev' = [NoEvent EXCEPT !.kind = "open",
                            !.sent = BridgeSend(readyState', Handshake),
                            !.passed = Handshake,
                            !.on = bws,
                            !.socket = s]
  /\ bwire' = WireAfter(bwire, bws, BridgeSend(readyState', Handshake))
  /\ closes' = 0
  /\ rfails' = 0
  /\ terminals' = 0
  /\ UNCHANGED <<bcfg, bws, reconnectTimeout, intentionalDisconnect, timers,
                 disconnected>>
  /\ UNCHANGED nonBridgeVars

\* scheduleReconnect(): what it leaves in reconnectAttempt, reconnectTimeout and
\* the timers, and whether it surfaced the terminal error; n is the number of
\* closes in a row this one is
ScheduleReconnect(n) ==
  IF ~bcfg.autoReconnect \/ intentionalDisconnect
  THEN [reconnectAttempt |-> reconnectAttempt, reconnectTimeout |-> reconnectTimeout,
        timers |-> timers, scheduled |-> 0, terminal |-> FALSE]
  ELSE IF reconnectAttempt >= ReconnectMaxAttempts
  THEN [reconnectAttempt |-> reconnectAttempt, reconnectTimeout |-> reconnectTimeout,
        timers |-> timers, scheduled |-> 0, terminal |-> TRUE]
  ELSE [reconnectAttempt |-> reconnectAttempt + 1,
        reconnectTimeout |-> NewTimer(timers),
        timers |-> IF NewTimer(timers) = 0 THEN timers
                   ELSE [timers EXCEPT ![NewTimer(timers)] =
                           [live |-> TRUE, delay |-> ReconnectDelay(reconnectAttempt + 1),
                            n |-> n]],
        scheduled |-> NewTimer(timers), terminal |-> FALSE]

\* ws.onclose of socket s: cleanup(); onDisconnect(); scheduleReconnect()
WsOnClose(s) ==
  /\ s \in Live
  /\ readyState' = [readyState EXCEPT ![s] = "none"]
  /\ bws' = IF bws = s THEN 0 ELSE bws
  /\ hooksRef' = FALSE
  /\ closes' = IF intentionalDisconnect THEN closes
               ELSE Min(closes + 1, ReconnectMaxAttempts + 1)
  /\ \E r \in {ScheduleReconnect(closes')} :
       /\ r.reconnectAttempt # reconnectAttempt => r.scheduled # 0
       /\ reconnectAttempt' = r.reconnectAttempt
       /\ reconnectTimeout' = r.reconnectTimeout
       /\ timers' = r.timers
       /\ terminals' = IF r.terminal THEN Min(terminals + 1, 2) ELSE terminals
       /\ bev' = [NoEvent EXCEPT !.kind = "close", !.scheduled = r.scheduled,
                                 !.terminal = r.terminal]
  /\ rfails' = IF s \in attempting THEN Min(rfails + 1, ReconnectMaxAttempts)
               ELSE rfails
  /\ attempting' = attempting \ {s}
  /\ bwire' = [bwire EXCEPT ![s] = <<>>]
  /\ UNCHANGED <<bcfg, intentionalDisconnect, hooksLeaked, disconnected>>
  /\ UNCHANGED nonBridgeVars

\* ws.onerror of socket s: onError(new Error('WebSocket error'))
WsOnError(s) ==
  /\ s \in Live
  /\ bev' = [NoEvent EXCEPT !.kind = "error"]
  /\ UNCHANGED <<bcfg, bws, readyState, attempting, reconnectAttempt,
                 reconnectTimeout, intentionalDisconnect, timers, hooksRef,
                 hooksLeaked, closes, rfails, terminals, disconnected, bwire>>
  /\ UNCHANGED nonBridgeVars

\* the application calls disconnect()
AppDisconnect ==
  /\ intentionalDisconnect' = TRUE
  /\ timers' = ClearTimeout(timers, reconnectTimeout)
  /\ reconnectTimeout' = 0
  /\ hooksRef' = FALSE
  /\ readyState' = IF bws # 0 /\ readyState[bws] \in {"connecting", "open"}
                   THEN [readyState EXCEPT ![bws] = "closing"]
                   ELSE readyState
  /\ attempting' = attempting \ {bws}
  /\ bws' = 0
  /\ bev' = [NoEvent EXCEPT !.kind = "disconnect"]
  /\ rfails' = 0
  /\ terminals' = 0
  /\ disconnected' = TRUE
  /\ UNCHANGED <<bcfg, reconnectAttempt, hooksLeaked, closes, bwire>>
  /\ UNCHANGED nonBridgeVars

\* send(msg) outside the open handler: sendState() of the application, or
\* the callback of a running console hook
SendMessage(m) ==
  /\ m = "console" => (hooksRef \/ hooksLeaked)
  /\ bev' = [NoEvent EXCEPT !.kind = "send",
                            !.sent = BridgeSend(readyState, <<m>>),
                            !.passed = <<m>>,
                            !.on = bws]
  /\ bwire' = WireAfter(bwire, bws, BridgeSend(readyState, <<m>>))
  /\ UNCHANGED <<bcfg, bws, readyState, attempting, reconnectAttempt,
                 reconnectTimeout, intentionalDisconnect, timers, hooksRef,
                 hooksLeaked, closes, rfails, terminals, disconnected>>
  /\ UNCHANGED nonBridgeVars

NextBridge ==
  \/ AppConnect
  \/ AppDisconnect
  \/ \E t \in TimerIds : TimerFires(t)
  \/ \E s \in BSock : WsOnOpen(s)
  \/ \E s \in BSock : WsOnClose(s)
  \/ \E s \in BSock : WsOnError(s)
  \/ \E m \in Messages : SendMessage(m)

(***************************************************************************)
(* DOM MUTATION BATCHER  (DomObserver, as the bridge drives it)            *)
(***************************************************************************)
\* mutation records the document produces in one run
MaxMutations == 4
\* records one invocation of the MutationObserver callback can carry
MaxRecords == 2

\* nothing was delivered and stop() was not called
NoDomHistory == [delivered |-> <<>>, stoppedAt |-> 0, afterStop |-> <<>>]

\* no step yet
NoDomEvent == [kind |-> "none", batches |-> <<>>, window |-> <<>>]

\* the MutationRecords the model enumerates: a child list change under an
\* element that has an id, an attribute change of an element that has none,
\* and a change of a text node
RawRecords ==
  {[type |-> "childList", element |-> TRUE, id |-> "a", tagName |-> "UL"],
   [type |-> "attributes", element |-> TRUE, id |-> "", tagName |-> "DIV"],
   [type |-> "characterData", element |-> FALSE, id |-> "", tagName |-> ""]}

ToLowerCase(tagName) ==
  CASE tagName = "UL" -> "ul"
    [] tagName = "DIV" -> "div"
    [] OTHER -> tagName

\* serialize(record); seq is the place of the record in the document's history
Serialize(record, seq) ==
  [seq |-> seq,
   mutationType |-> record.type,
   targetSelector |-> IF record.element
                      THEN IF record.id # "" THEN "#" \o record.id
                           ELSE ToLowerCase(record.tagName)
                      ELSE ""]

\* the records of one MutationObserver callback, serialized in order; they are
\* the records dnext, dnext + 1, ... of the document
Records(raw) == [i \in 1 .. Len(raw) |-> Serialize(raw[i], dnext + i - 1)]

PendingKept(p) == p

\* `this.pending = []` after the callback got the batch
PendingAfterFlush(p) == <<>>

\* the open handler: domObserver = new DomObserver(callback, batchMs); start()
DomStart ==
  /\ observer \in {"none", "stopped"}
  /\ observer' = "running"
  /\ pending' = <<>>
  /\ timeout' = FALSE
  /\ dwindow' = <<>>
  /\ dev' = [NoDomEvent EXCEPT !.kind = "start"]
  /\ UNCHANGED <<dnext, dhist>>
  /\ UNCHANGED nonDomVars

\* start() of a DomObserver that was never started, or was stopped: a new
\* MutationObserver observes document.body; pending and timeout stay as
\* they are
ObserverStart ==
  /\ observer \in {"none", "stopped"}
  /\ observer' = "running"
  /\ dwindow' = <<>>
  /\ dev' = [NoDomEvent EXCEPT !.kind = "start"]
  /\ UNCHANGED <<pending, timeout, dnext, dhist>>
  /\ UNCHANGED nonDomVars

\* the MutationObserver callback with its records: push each, scheduleBatch()
OnMutations(raw) ==
  /\ observer = "running"
  /\ dnext + Len(raw) - 1 <= MaxMutations
  /\ pending' = pending \o Records(raw)
  /\ timeout' = TRUE
  /\ dnext' = dnext + Len(raw)
  /\ dwindow' = IF timeout THEN dwindow \o Records(raw) ELSE Records(raw)
  /\ dev' = [NoDomEvent EXCEPT !.kind = "mutations"]
  /\ UNCHANGED <<observer, dhist>>
  /\ UNCHANGED nonDomVars

\* the flush timer fires, batchMs after scheduleBatch() set it
FlushTimerFires ==
  /\ timeout
  /\ timeout' = FALSE
  /\ pending' = IF Len(pending) > 0 THEN PendingAfterFlush(pending) ELSE pending
  /\ dev' = [kind |-> "flush",
             batches |-> IF Len(pending) > 0 THEN <<pending>> ELSE <<>>,
             window |-> dwindow]
  /\ dwindow' = <<>>
  /\ dhist' = IF Len(pending) > 0
              THEN [dhist EXCEPT
                      !.delivered = @ \o [i \in 1 .. Len(pending) |-> pending[i].seq],
                      !.afterStop = [i \in 1 .. Len(pending) |-> pending[i].seq]]
              ELSE dhist
  /\ UNCHANGED <<observer, dnext>>
  /\ UNCHANGED nonDomVars

\* cleanup(): domObserver?.stop(); domObserver = null
DomStop ==
  /\ observer = "running"
  /\ observer' = "stopped"
  /\ timeout' = FALSE
  /\ dwindow' = <<>>
  /\ dev' = [NoDomEvent EXCEPT !.kind = "stop"]
  /\ dhist' = [dhist EXCEPT !.stoppedAt = dnext - 1, !.afterStop = <<>>]
  /\ UNCHANGED <<pending, dnext>>
  /\ UNCHANGED nonDomVars

NextDom ==
  \/ DomStart
  \/ \E k \in 1 .. MaxRecords : \E raw \in [1 .. k -> RawRecords] : OnMutations(raw)
  \/ FlushTimerFires
  \/ DomStop

\* one DomObserver under any order of start(), records, timer and stop()
NextObserver ==
  \/ ObserverStart
  \/ \E k \in 1 .. MaxRecords : \E raw \in [1 .. k -> RawRecords] : OnMutations(raw)
  \/ FlushTimerFires
  \/ DomStop

(***************************************************************************)
(* COLLECTORS  (ConsoleHook, ErrorHook, NetworkHook, NavigationHook)       *)
(***************************************************************************)
\* collector instances of one kind that exist at one time (the bridge makes a
\* new instance of each kind in every open handler)
MaxHooks == 2

\* requests one NetworkHook instance gives an id to
MaxRequests == 2

HookIds == 1 .. MaxHooks

Kinds == {"console", "error", "network", "navigation"}

\* const levels: ConsoleLevel[] = ['log', 'info', 'warn', 'error', 'debug']
Levels == {"log", "info", "warn", "error", "debug"}

\* the built-in functions a collector of the given kind replaces in start()
Patched(kind) ==
  CASE kind = "console" -> Levels
    [] kind = "network" -> {"fetch", "xhrOpen", "xhrSend"}
    [] kind = "navigation" -> {"pushState", "replaceState"}
    [] OTHER -> {}

\* the window events a collector of the given kind listens to
Events(kind) ==
  CASE kind = "error" -> {"error", "unhandledrejection"}
    [] kind = "navigation" -> {"popstate", "hashchange"}
    [] OTHER -> {}

Builtins == UNION {Patched(k) : k \in Kinds}

\* the function value start() of instance i installs
Wrapper(i) == "w" \o ToString(i)

\* function values: the one installed before any collector started, and the
\* wrappers
Fns == {"native"} \cup {Wrapper(i) : i \in HookIds}

\* the instance a wrapper closes over (`self` / `this`)
HookOf(fn) == CHOOSE i \in HookIds : Wrapper(i) = fn

\* a collector after its constructor: nothing saved, no handler
NewHook(kind) ==
  [phase |-> "new",
   originals |-> [b \in Patched(kind) |-> None],
   handlers |-> {},
   before |-> [b \in Patched(kind) |-> None],
   requestCounter |-> 0]

NoHooks == [k \in Kinds |-> [i \in HookIds |-> NewHook(k)]]

\* kinds of collector the configuration enables at one time
MaxEnabled == 2

\* the collectors of a configuration that enables the kinds in E
\* (enableConsole, enableErrors, enableNetwork, enableNavigation): a kind that
\* is not enabled is never constructed
HooksOf(E) ==
  [k \in Kinds |-> [i \in HookIds |->
     IF k \in E THEN NewHook(k) ELSE [NewHook(k) EXCEPT !.phase = "off"]]]

EnabledSets == {E \in SUBSET Kinds : E # {} /\ Cardinality(E) <= MaxEnabled}

NativeFns == [b \in Builtins |-> "native"]

\* header names an application or a server uses
HeaderNames == {"Authorization", "Set-Cookie", "cookie", "Content-Type"}

\* the headers of one request or response: none, one, or all of them
HeaderSets == {S \in SUBSET HeaderNames : Cardinality(S) <= 1} \cup {HeaderNames}

\* String.prototype.toLowerCase on a header name
HeaderToLowerCase(name) ==
  CASE name = "Authorization" -> "authorization"
    [] name = "Set-Cookie" -> "set-cookie"
    [] name = "Content-Type" -> "content-type"
    [] OTHER -> name

\* String.prototype.includes on a lower-case header name
Includes(name, needle) ==
  \/ needle = "authorization" /\ name = "authorization"
  \/ needle = "cookie" /\ name \in {"cookie", "set-cookie"}

\* new Headers(init): the names are normalised to lower case
NewHeaders(names) == {HeaderToLowerCase(n) : n \in names}

\* Object.fromEntries(new Headers(init.headers)): every entry is kept
ObjectFromEntries(headers) == headers

\* headersToRecord(headers): the entries whose lower-cased name includes
\* neither 'authorization' nor 'cookie'
HeadersToRecord(headers) ==
  {key \in headers : /\ ~Includes(HeaderToLowerCase(key), "authorization")
                     /\ ~Includes(HeaderToLowerCase(key), "cookie")}

\* no collector step yet
NoHookEvent ==
  [op |-> "none", kind |-> None, id |-> 0, emitted |-> <<>>, was |-> "new",
   capture |-> TRUE]

\* stop() that forgets what start() saved without putting it back
RestoredNever(kind, h, fn) == fn

\* the built-ins after stop() of collector h: a saved original is put back
\* (XMLHttpRequest's open and send only when both were saved)
Restored(kind, h, fn) ==
  [b \in Builtins |->
     IF b \notin Patched(kind) THEN fn[b]
     ELSE IF b \in {"xhrOpen", "xhrSend"}
          THEN (IF h.originals["xhrOpen"] # None /\ h.originals["xhrSend"] # None
                THEN h.originals[b] ELSE fn[b])
          ELSE (IF h.originals[b] # None THEN h.originals[b] ELSE fn[b])]

\* start() of instance i of a kind: the current built-ins are saved and
\* replaced by wrappers, the handlers are created and registered; a
\* NavigationHook first reports the current URL
StartHook(kind, i) ==
  /\ hook[kind][i].phase = "new"
  /\ hook' = [hook EXCEPT ![kind][i] =
                [@ EXCEPT !.phase = "started",
                          !.originals = [b \in Patched(kind) |-> hfn[b]],
                          !.before = [b \in Patched(kind) |-> hfn[b]],
                          !.handlers = Events(kind)]]
  /\ hfn' = [b \in Builtins |-> IF b \in Patched(kind) THEN Wrapper(i) ELSE hfn[b]]
  /\ hlisten' = hlisten \cup (Events(kind) \X {i})
  /\ hev' = [NoHookEvent EXCEPT
               !.op = "start", !.kind = kind, !.id = i,
               !.emitted = IF kind = "navigation"
                           THEN <<[type |-> "navigation", requestId |-> <<0, 0>>,
                                   headers |-> {}, initiator |-> "initial", hook |-> i]>>
                           ELSE <<>>]
  /\ UNCHANGED <<hflight, xhrListeners, hlog>>
  /\ UNCHANGED nonHookVars

\* stop() of instance i of a kind
StopHook(kind, i) ==
  /\ hook[kind][i].phase \in {"started", "stopped"}
  /\ hfn' = Restored(kind, hook[kind][i], hfn)
  /\ hlisten' = hlisten \ (hook[kind][i].handlers \X {i})
  /\ hook' = [hook EXCEPT ![kind][i] =
                [@ EXCEPT !.phase = "stopped",
                          !.originals = [b \in Patched(kind) |-> None],
                          !.handlers = {}]]
  /\ hev' = [NoHookEvent EXCEPT !.op = "stop", !.kind = kind, !.id = i,
                                !.was = hook[kind][i].phase]
  /\ UNCHANGED <<hflight, xhrListeners, hlog>>
  /\ UNCHANGED nonHookVars

RECURSIVE Chain(_, _, _)
\* the NetworkHook instances a call of built-in b runs through, outermost
\* first: every wrapper calls the original its instance has saved
Chain(b, fn, n) ==
  IF fn \in {"native", None} \/ n = 0 THEN <<>>
  ELSE <<HookOf(fn)>> \o Chain(b, hook["network"][HookOf(fn)].originals[b], n - 1)

\* the innermost wrapper of the chain finds its saved original null
\* (self.originalFetch!.call(...) throws a TypeError)
Broken(b, ch) ==
  ch # <<>> /\ hook["network"][ch[Len(ch)]].originals[b] = None

\* ++this.requestCounter in every instance of the chain
Counted(hk, ch) ==
  [hk EXCEPT !["network"] =
     [i \in HookIds |-> IF i \in SeqToSet(ch)
                        THEN [hk["network"][i] EXCEPT !.requestCounter = @ + 1]
                        ELSE hk["network"][i]]]

NetFrame(type, requestId, headers, initiator, i) ==
  [type |-> type, requestId |-> requestId, headers |-> headers,
   initiator |-> initiator, hook |-> i]

\* the fetch wrapper's report of the request: the headers of init as they are
FetchRequest(i, counter, reqHeaders) ==
  NetFrame("network_request", <<i, counter>>,
           ObjectFromEntries(NewHeaders(reqHeaders)), "fetch", i)

\* the fetch wrapper's report of the response, or of the failure
FetchResponse(i, requestId, respHeaders, fails) ==
  NetFrame("network_response", requestId,
           IF fails THEN {} ELSE HeadersToRecord(NewHeaders(respHeaders)),
           None, i)

\* nothing is in flight
NoFlight == <<>>

\* what a callback call leaves in the log: the callback, the instance it
\* belongs to and the requestId it was given
Logged(frames) ==
  [k \in 1 .. Len(frames) |->
     [type |-> frames[k].type, hook |-> frames[k].hook, requestId |-> frames[k].requestId]]

\* the application calls window.fetch(url, {headers}) while a wrapper is
\* installed; `capture` is shouldCapture(url).  The wrappers run down to the
\* first await: each gives the request an id and reports it
FetchCall(capture, reqHeaders, respHeaders, fails) ==
  /\ hflight = NoFlight
  /\ \E ch \in {Chain("fetch", hfn["fetch"], MaxHooks)} :
       /\ ch # <<>>
       /\ \A k \in 1 .. Len(ch) : hook["network"][ch[k]].requestCounter < MaxRequests
       /\ IF capture
          THEN /\ hook' = Counted(hook, ch)
               /\ hev' = [NoHookEvent EXCEPT
                            !.op = "fetch", !.kind = "network", !.id = ch[1],
                            !.emitted = [k \in 1 .. Len(ch) |->
                               FetchRequest(ch[k], hook'["network"][ch[k]].requestCounter,
                                            reqHeaders)]]
               /\ hflight' = <<[via |-> "fetch",
                                ids |-> [k \in 1 .. Len(ch) |->
                                           <<ch[k], hook'["network"][ch[k]].requestCounter>>],
                                respHeaders |-> respHeaders,
                                fails |-> fails \/ Broken("fetch", ch)]>>
          ELSE /\ hev' = [NoHookEvent EXCEPT !.op = "fetch", !.kind = "network",
                                             !.id = ch[1], !.capture = FALSE]
               /\ UNCHANGED <<hook, hflight>>
  /\ hlog' = hlog \o Logged(hev'.emitted)
  /\ UNCHANGED <<hfn, hlisten, xhrListeners>>
  /\ UNCHANGED nonHookVars

\* the awaited fetch settles: the wrappers resume, innermost first, and each
\* reports the response (or the failure, with status 0)
FetchSettles ==
  /\ hflight # NoFlight
  /\ hflight[1].via = "fetch"
  /\ \E f \in {hflight[1]} : \E n \in {Len(hflight[1].ids)} :
       hev' = [NoHookEvent EXCEPT
                 !.op = "settle", !.kind = "network", !.id = f.ids[n][1],
                 !.emitted = [k \in 1 .. n |->
                    FetchResponse(f.ids[n + 1 - k][1], f.ids[n + 1 - k],
                                  f.respHeaders, f.fails)]]
  /\ hlog' = hlog \o Logged(hev'.emitted)
  /\ hflight' = NoFlight
  /\ UNCHANGED <<hfn, hlisten, hook, xhrListeners>>
  /\ UNCHANGED nonHookVars

\* this.addEventListener('loadend', ...): the listeners an XMLHttpRequest
\* already has stay registered
AddEventListener(listeners, added) == listeners \o added

\* the application makes a request with an XMLHttpRequest, a new one
\* (`fresh`) or the one it used before: open(method, url), then send().
\* Every open wrapper stores { method, url, requestId } in _debugBridge, the
\* innermost last; every send wrapper whose URL is captured reports the
\* request under that id, without headers, and adds a loadend listener that
\* closes over that _debugBridge
XhrCall(capture, fresh) ==
  /\ hflight = NoFlight
  /\ \E och \in {Chain("xhrOpen", hfn["xhrOpen"], MaxHooks)} :
     \E sch \in {Chain("xhrSend", hfn["xhrSend"], MaxHooks)} :
       /\ och # <<>>
       /\ \A k \in 1 .. Len(och) : hook["network"][och[k]].requestCounter < MaxRequests
       /\ hook' = Counted(hook, och)
       /\ \E id \in {<<och[Len(och)], hook'["network"][och[Len(och)]].requestCounter>>} :
          \E had \in {IF fresh THEN <<>> ELSE xhrListeners} :
            IF capture /\ ~Broken("xhrOpen", och)
            THEN /\ hev' = [NoHookEvent EXCEPT
                              !.op = "xhr", !.kind = "network", !.id = och[1],
                              !.emitted = [k \in 1 .. Len(sch) |->
                                 NetFrame("network_request", id, {}, "xhr", sch[k])]]
                 /\ xhrListeners' =
                      AddEventListener(had, [k \in 1 .. Len(sch) |-> <<sch[k], id>>])
                 /\ hflight' = IF Broken("xhrSend", sch) THEN NoFlight
                               ELSE <<[via |-> "xhr", ids |-> xhrListeners',
                                       respHeaders |-> {}, fails |-> FALSE]>>
            ELSE /\ hev' = [NoHookEvent EXCEPT !.op = "xhr", !.kind = "network",
                                               !.id = och[1], !.capture = FALSE]
                 /\ xhrListeners' = had
                 /\ hflight' = IF had = <<>> \/ Broken("xhrOpen", och)
                                  \/ Broken("xhrSend", sch)
                               THEN NoFlight
                               ELSE <<[via |-> "xhr", ids |-> had,
                                       respHeaders |-> {}, fails |-> FALSE]>>
  /\ hlog' = hlog \o Logged(hev'.emitted)
  /\ UNCHANGED <<hfn, hlisten>>
  /\ UNCHANGED nonHookVars

\* loadend of the request in flight: the listeners of the XMLHttpRequest run
\* in the order they were added and each reports a response, without
\* headers, under the requestId it closed over
XhrLoadEnd ==
  /\ hflight # NoFlight
  /\ hflight[1].via = "xhr"
  /\ \E f \in {hflight[1]} :
       hev' = [NoHookEvent EXCEPT
                 !.op = "loadend", !.kind = "network", !.id = f.ids[1][1],
                 !.emitted = [k \in 1 .. Len(f.ids) |->
                    NetFrame("network_response", f.ids[k][2], {}, None, f.ids[k][1])]]
  /\ hlog' = hlog \o Logged(hev'.emitted)
  /\ hflight' = NoFlight
  /\ UNCHANGED <<hfn, hlisten, hook, xhrListeners>>
  /\ UNCHANGED nonHookVars

\* the collectors are started and stopped
NextHooks ==
  \/ \E kind \in Kinds : \E i \in HookIds : StartHook(kind, i)
  \/ \E kind \in Kinds : \E i \in HookIds : StopHook(kind, i)

\* NetworkHook instances are started and stopped while the application
\* makes requests
NextNet ==
  \/ \E i \in HookIds : StartHook("network", i)
  \/ \E i \in HookIds : StopHook("network", i)
  \/ \E capture \in BOOLEAN : \E reqHeaders \in HeaderSets :
       \E respHeaders \in HeaderSets : \E fails \in BOOLEAN :
         FetchCall(capture, reqHeaders, respHeaders, fails)
  \/ FetchSettles
  \/ \E capture \in BOOLEAN : \E fresh \in BOOLEAN : XhrCall(capture, fresh)
  \/ XhrLoadEnd

(***************************************************************************)
(* SPECIFICATIONS                                                          *)
(***************************************************************************)
\* Each specification starts its own subsystem and leaves the others parked.
InitSpecRelay ==
  /\ rsock = [s \in Sock |-> "free"]
  /\ clients = <<>>
  /\ appConnection = 0
  /\ rhandlers = {}
  /\ rinbox = NoInbox
  /\ rcli = <<>>
  /\ rclose = 0
  /\ rop = NoOp
  /\ rdom = <<>>
  /\ rtarget = UndefinedTarget
  /\ rresult = NotResolved
  /\ rtree = NoTree
  /\ getStableId = NoGetStableId
  /\ xcfg = ParkedConfig
  /\ xopen = FALSE
  /\ xconn = 1
  /\ xnext = 1
  /\ xrun = NoRun
  /\ xpending = {}
  /\ xtally = [r \in 1 .. MaxCommands |-> NoTally]
  /\ bcfg = [autoReconnect |-> TRUE]
  /\ bws = 0
  /\ readyState = [s \in BSock |-> "none"]
  /\ attempting = {}
  /\ reconnectAttempt = 0
  /\ reconnectTimeout = 0
  /\ intentionalDisconnect = FALSE
  /\ timers = NoTimers
  /\ hooksRef = FALSE
  /\ hooksLeaked = FALSE
  /\ bev = NoEvent
  /\ closes = 0
  /\ rfails = 0
  /\ terminals = 0
  /\ disconnected = FALSE
  /\ bwire = NoWire
  /\ observer = "none"
  /\ pending = <<>>
  /\ timeout = FALSE
  /\ dnext = 1
  /\ dwindow = <<>>
  /\ dhist = NoDomHistory
  /\ dev = NoDomEvent
  /\ hfn = NativeFns
  /\ hlisten = {}
  /\ hook = NoHooks
  /\ hflight = NoFlight
  /\ xhrListeners = <<>>
  /\ hlog = <<>>
  /\ hev = NoHookEvent

InitSpecServer ==
  /\ rsock = [s \in Sock |-> "free"]
  /\ clients = <<>>
  /\ appConnection = 0
  /\ rhandlers = {}
  /\ rinbox = NoInbox
  /\ rcli = <<>>
  /\ rclose = 0
  /\ rop = NoOp
  /\ rdom = <<>>
  /\ rtarget = UndefinedTarget
  /\ rresult = NotResolved
  /\ rtree = NoTree
  /\ getStableId = NoGetStableId
  /\ xcfg = ParkedConfig
  /\ xopen = FALSE
  /\ xconn = 1
  /\ xnext = 1
  /\ xrun = NoRun
  /\ xpending = {}
  /\ xtally = [r \in 1 .. MaxCommands |-> NoTally]
  /\ bcfg = [autoReconnect |-> TRUE]
  /\ bws = 0
  /\ readyState = [s \in BSock |-> "none"]
  /\ attempting = {}
  /\ reconnectAttempt = 0
  /\ reconnectTimeout = 0
  /\ intentionalDisconnect = FALSE
  /\ timers = NoTimers
  /\ hooksRef = FALSE
  /\ hooksLeaked = FALSE
  /\ bev = NoEvent
  /\ closes = 0
  /\ rfails = 0
  /\ terminals = 0
  /\ disconnected = FALSE
  /\ bwire = NoWire
  /\ observer = "none"
  /\ pending = <<>>
  /\ timeout = FALSE
  /\ dnext = 1
  /\ dwindow = <<>>
  /\ dhist = NoDomHistory
  /\ dev = NoDomEvent
  /\ hfn = NativeFns
  /\ hlisten = {}
  /\ hook = NoHooks
  /\ hflight = NoFlight
  /\ xhrListeners = <<>>
  /\ hlog = <<>>
  /\ hev = NoHookEvent

InitSpecResolve ==
  /\ rdom \in Doms
  /\ rtarget \in Targets
  /\ rresult = NotResolved
  /\ rtree = NoTree
  /\ getStableId = NoGetStableId
  /\ rsock = [s \in Sock |-> "free"]
  /\ clients = <<>>
  /\ appConnection = 0
  /\ rhandlers = {}
  /\ rinbox = NoInbox
  /\ rcli = <<>>
  /\ rclose = 0
  /\ rop = NoOp
  /\ xcfg = ParkedConfig
  /\ xopen = FALSE
  /\ xconn = 1
  /\ xnext = 1
  /\ xrun = NoRun
  /\ xpending = {}
  /\ xtally = [r \in 1 .. MaxCommands |-> NoTally]
  /\ bcfg = [autoReconnect |-> TRUE]
  /\ bws = 0
  /\ readyState = [s \in BSock |-> "none"]
  /\ attempting = {}
  /\ reconnectAttempt = 0
  /\ reconnectTimeout = 0
  /\ intentionalDisconnect = FALSE
  /\ timers = NoTimers
  /\ hooksRef = FALSE
  /\ hooksLeaked = FALSE
  /\ bev = NoEvent
  /\ closes = 0
  /\ rfails = 0
  /\ terminals = 0
  /\ disconnected = FALSE
  /\ bwire = NoWire
  /\ observer = "none"
  /\ pending = <<>>
  /\ timeout = FALSE
  /\ dnext = 1
  /\ dwindow = <<>>
  /\ dhist = NoDomHistory
  /\ dev = NoDomEvent
  /\ hfn = NativeFns
  /\ hlisten = {}
  /\ hook = NoHooks
  /\ hflight = NoFlight
  /\ xhrListeners = <<>>
  /\ hlog = <<>>
  /\ hev = NoHookEvent

InitSpecTree ==
  /\ rdom \in TreeDoms
  /\ rtarget = UndefinedTarget
  /\ rresult = NotResolved
  /\ rtree = NoTree
  /\ getStableId = NoGetStableId
  /\ rsock = [s \in Sock |-> "free"]
  /\ clients = <<>>
  /\ appConnection = 0
  /\ rhandlers = {}
  /\ rinbox = NoInbox
  /\ rcli = <<>>
  /\ rclose = 0
  /\ rop = NoOp
  /\ xcfg = ParkedConfig
  /\ xopen = FALSE
  /\ xconn = 1
  /\ xnext = 1
  /\ xrun = NoRun
  /\ xpending = {}
  /\ xtally = [r \in 1 .. MaxCommands |-> NoTally]
  /\ bcfg = [autoReconnect |-> TRUE]
  /\ bws = 0
  /\ readyState = [s \in BSock |-> "none"]
  /\ attempting = {}
  /\ reconnectAttempt = 0
  /\ reconnectTimeout = 0
  /\ intentionalDisconnect = FALSE
  /\ timers = NoTimers
  /\ hooksRef = FALSE
  /\ hooksLeaked = FALSE
  /\ bev = NoEvent
  /\ closes = 0
  /\ rfails = 0
  /\ terminals = 0
  /\ disconnected = FALSE
  /\ bwire = NoWire
  /\ observer = "none"
  /\ pending = <<>>
  /\ timeout = FALSE
  /\ dnext = 1
  /\ dwindow = <<>>
  /\ dhist = NoDomHistory
  /\ dev = NoDomEvent
  /\ hfn = NativeFns
  /\ hlisten = {}
  /\ hook = NoHooks
  /\ hflight = NoFlight
  /\ xhrListeners = <<>>
  /\ hlog = <<>>
  /\ hev = NoHookEvent

InitSpecIds ==
  /\ rdom \in IdDoms
  /\ rtarget = UndefinedTarget
  /\ rresult = NotResolved
  /\ rtree = NoTree
  /\ getStableId \in GetStableIds
  /\ rsock = [s \in Sock |-> "free"]
  /\ clients = <<>>
  /\ appConnection = 0
  /\ rhandlers = {}
  /\ rinbox = NoInbox
  /\ rcli = <<>>
  /\ rclose = 0
  /\ rop = NoOp
  /\ xcfg = ParkedConfig
  /\ xopen = FALSE
  /\ xconn = 1
  /\ xnext = 1
  /\ xrun = NoRun
  /\ xpending = {}
  /\ xtally = [r \in 1 .. MaxCommands |-> NoTally]
  /\ bcfg = [autoReconnect |-> TRUE]
  /\ bws = 0
  /\ readyState = [s \in BSock |-> "none"]
  /\ attempting = {}
  /\ reconnectAttempt = 0
  /\ reconnectTimeout = 0
  /\ intentionalDisconnect = FALSE
  /\ timers = NoTimers
  /\ hooksRef = FALSE
  /\ hooksLeaked = FALSE
  /\ bev = NoEvent
  /\ closes = 0
  /\ rfails = 0
  /\ terminals = 0
  /\ disconnected = FALSE
  /\ bwire = NoWire
  /\ observer = "none"
  /\ pending = <<>>
  /\ timeout = FALSE
  /\ dnext = 1
  /\ dwindow = <<>>
  /\ dhist = NoDomHistory
  /\ dev = NoDomEvent
  /\ hfn = NativeFns
  /\ hlisten = {}
  /\ hook = NoHooks
  /\ hflight = NoFlight
  /\ xhrListeners = <<>>
  /\ hlog = <<>>
  /\ hev = NoHookEvent

InitSpecExec ==
  /\ xcfg \in Configs
  /\ xopen = TRUE
  /\ xconn = 1
  /\ xnext = 1
  /\ xrun = NoRun
  /\ xpending = {}
  /\ xtally = [r \in 1 .. MaxCommands |-> NoTally]
  /\ rsock = [s \in Sock |-> "free"]
  /\ clients = <<>>
  /\ appConnection = 0
  /\ rhandlers = {}
  /\ rinbox = NoInbox
  /\ rcli = <<>>
  /\ rclose = 0
  /\ rop = NoOp
  /\ rdom = <<>>
  /\ rtarget = UndefinedTarget
  /\ rresult = NotResolved
  /\ rtree = NoTree
  /\ getStableId = NoGetStableId
  /\ bcfg = [autoReconnect |-> TRUE]
  /\ bws = 0
  /\ readyState = [s \in BSock |-> "none"]
  /\ attempting = {}
  /\ reconnectAttempt = 0
  /\ reconnectTimeout = 0
  /\ intentionalDisconnect = FALSE
  /\ timers = NoTimers
  /\ hooksRef = FALSE
  /\ hooksLeaked = FALSE
  /\ bev = NoEvent
  /\ closes = 0
  /\ rfails = 0
  /\ terminals = 0
  /\ disconnected = FALSE
  /\ bwire = NoWire
  /\ observer = "none"
  /\ pending = <<>>
  /\ timeout = FALSE
  /\ dnext = 1
  /\ dwindow = <<>>
  /\ dhist = NoDomHistory
  /\ dev = NoDomEvent
  /\ hfn = NativeFns
  /\ hlisten = {}
  /\ hook = NoHooks
  /\ hflight = NoFlight
  /\ xhrListeners = <<>>
  /\ hlog = <<>>
  /\ hev = NoHookEvent

InitSpecBridge ==
  /\ bcfg \in [autoReconnect : BOOLEAN]
  /\ bws = 0
  /\ readyState = [s \in BSock |-> "none"]
  /\ attempting = {}
  /\ reconnectAttempt = 0
  /\ reconnectTimeout = 0
  /\ intentionalDisconnect = FALSE
  /\ timers = NoTimers
  /\ hooksRef = FALSE
  /\ hooksLeaked = FALSE
  /\ bev = NoEvent
  /\ closes = 0
  /\ rfails = 0
  /\ terminals = 0
  /\ disconnected = FALSE
  /\ bwire = NoWire
  /\ rsock = [s \in Sock |-> "free"]
  /\ clients = <<>>
  /\ appConnection = 0
  /\ rhandlers = {}
  /\ rinbox = NoInbox
  /\ rcli = <<>>
  /\ rclose = 0
  /\ rop = NoOp
  /\ rdom = <<>>
  /\ rtarget = UndefinedTarget
  /\ rresult = NotResolved
  /\ rtree = NoTree
  /\ getStableId = NoGetStableId
  /\ xcfg = ParkedConfig
  /\ xopen = FALSE
  /\ xconn = 1
  /\ xnext = 1
  /\ xrun = NoRun
  /\ xpending = {}
  /\ xtally = [r \in 1 .. MaxCommands |-> NoTally]
  /\ observer = "none"
  /\ pending = <<>>
  /\ timeout = FALSE
  /\ dnext = 1
  /\ dwindow = <<>>
  /\ dhist = NoDomHistory
  /\ dev = NoDomEvent
  /\ hfn = NativeFns
  /\ hlisten = {}
  /\ hook = NoHooks
  /\ hflight = NoFlight
  /\ xhrListeners = <<>>
  /\ hlog = <<>>
  /\ hev = NoHookEvent

InitSpecDom ==
  /\ bcfg = [autoReconnect |-> TRUE]
  /\ bws = 0
  /\ readyState = [s \in BSock |-> "none"]
  /\ attempting = {}
  /\ reconnectAttempt = 0
  /\ reconnectTimeout = 0
  /\ intentionalDisconnect = FALSE
  /\ timers = NoTimers
  /\ hooksRef = FALSE
  /\ hooksLeaked = FALSE
  /\ bev = NoEvent
  /\ closes = 0
  /\ rfails = 0
  /\ terminals = 0
  /\ disconnected = FALSE
  /\ bwire = NoWire
  /\ rsock = [s \in Sock |-> "free"]
  /\ clients = <<>>
  /\ appConnection = 0
  /\ rhandlers = {}
  /\ rinbox = NoInbox
  /\ rcli = <<>>
  /\ rclose = 0
  /\ rop = NoOp
  /\ rdom = <<>>
  /\ rtarget = UndefinedTarget
  /\ rresult = NotResolved
  /\ rtree = NoTree
  /\ getStableId = NoGetStableId
  /\ xcfg = ParkedConfig
  /\ xopen = FALSE
  /\ xconn = 1
  /\ xnext = 1
  /\ xrun = NoRun
  /\ xpending = {}
  /\ xtally = [r \in 1 .. MaxCommands |-> NoTally]
  /\ observer = "none"
  /\ pending = <<>>
  /\ timeout = FALSE
  /\ dnext = 1
  /\ dwindow = <<>>
  /\ dhist = NoDomHistory
  /\ dev = NoDomEvent
  /\ hfn = NativeFns
  /\ hlisten = {}
  /\ hook = NoHooks
  /\ hflight = NoFlight
  /\ xhrListeners = <<>>
  /\ hlog = <<>>
  /\ hev = NoHookEvent

InitSpecObserver ==
  /\ bcfg = [autoReconnect |-> TRUE]
  /\ bws = 0
  /\ readyState = [s \in BSock |-> "none"]
  /\ attempting = {}
  /\ reconnectAttempt = 0
  /\ reconnectTimeout = 0
  /\ intentionalDisconnect = FALSE
  /\ timers = NoTimers
  /\ hooksRef = FALSE
  /\ hooksLeaked = FALSE
  /\ bev = NoEvent
  /\ closes = 0
  /\ rfails = 0
  /\ terminals = 0
  /\ disconnected = FALSE
  /\ bwire = NoWire
  /\ rsock = [s \in Sock |-> "free"]
  /\ clients = <<>>
  /\ appConnection = 0
  /\ rhandlers = {}
  /\ rinbox = NoInbox
  /\ rcli = <<>>
  /\ rclose = 0
  /\ rop = NoOp
  /\ rdom = <<>>
  /\ rtarget = UndefinedTarget
  /\ rresult = NotResolved
  /\ rtree = NoTree
  /\ getStableId = NoGetStableId
  /\ xcfg = ParkedConfig
  /\ xopen = FALSE
  /\ xconn = 1
  /\ xnext = 1
  /\ xrun = NoRun
  /\ xpending = {}
  /\ xtally = [r \in 1 .. MaxCommands |-> NoTally]
  /\ observer = "none"
  /\ pending = <<>>
  /\ timeout = FALSE
  /\ dnext = 1
  /\ dwindow = <<>>
  /\ dhist = NoDomHistory
  /\ dev = NoDomEvent
  /\ hfn = NativeFns
  /\ hlisten = {}
  /\ hook = NoHooks
  /\ hflight = NoFlight
  /\ xhrListeners = <<>>
  /\ hlog = <<>>
  /\ hev = NoHookEvent

InitSpecHooks ==
  /\ bcfg = [autoReconnect |-> TRUE]
  /\ bws = 0
  /\ readyState = [s \in BSock |-> "none"]
  /\ attempting = {}
  /\ reconnectAttempt = 0
  /\ reconnectTimeout = 0
  /\ intentionalDisconnect = FALSE
  /\ timers = NoTimers
  /\ hooksRef = FALSE
  /\ hooksLeaked = FALSE
  /\ bev = NoEvent
  /\ closes = 0
  /\ rfails = 0
  /\ terminals = 0
  /\ disconnected = FALSE
  /\ bwire = NoWire
  /\ rsock = [s \in Sock |-> "free"]
  /\ clients = <<>>
  /\ appConnection = 0
  /\ rhandlers = {}
  /\ rinbox = NoInbox
  /\ rcli = <<>>
  /\ rclose = 0
  /\ rop = NoOp
  /\ rdom = <<>>
  /\ rtarget = UndefinedTarget
  /\ rresult = NotResolved
  /\ rtree = NoTree
  /\ getStableId = NoGetStableId
  /\ xcfg = ParkedConfig
  /\ xopen = FALSE
  /\ xconn = 1
  /\ xnext = 1
  /\ xrun = NoRun
  /\ xpending = {}
  /\ xtally = [r \in 1 .. MaxCommands |-> NoTally]
  /\ observer = "none"
  /\ pending = <<>>
  /\ timeout = FALSE
  /\ dnext = 1
  /\ dwindow = <<>>
  /\ dhist = NoDomHistory
  /\ dev = NoDomEvent
  /\ hfn = NativeFns
  /\ hlisten = {}
  /\ hook \in {HooksOf(E) : E \in EnabledSets}
  /\ hflight = NoFlight
  /\ xhrListeners = <<>>
  /\ hlog = <<>>
  /\ hev = NoHookEvent

InitSpecNet ==
  /\ bcfg = [autoReconnect |-> TRUE]
  /\ bws = 0
  /\ readyState = [s \in BSock |-> "none"]
  /\ attempting = {}
  /\ reconnectAttempt = 0
  /\ reconnectTimeout = 0
  /\ intentionalDisconnect = FALSE
  /\ timers = NoTimers
  /\ hooksRef = FALSE
  /\ hooksLeaked = FALSE
  /\ bev = NoEvent
  /\ closes = 0
  /\ rfails = 0
  /\ terminals = 0
  /\ disconnected = FALSE
  /\ bwire = NoWire
  /\ rsock = [s \in Sock |-> "free"]
  /\ clients = <<>>
  /\ appConnection = 0
  /\ rhandlers = {}
  /\ rinbox = NoInbox
  /\ rcli = <<>>
  /\ rclose = 0
  /\ rop = NoOp
  /\ rdom = <<>>
  /\ rtarget = UndefinedTarget
  /\ rresult = NotResolved
  /\ rtree = NoTree
  /\ getStableId = NoGetStableId
  /\ xcfg = ParkedConfig
  /\ xopen = FALSE
  /\ xconn = 1
  /\ xnext = 1
  /\ xrun = NoRun
  /\ xpending = {}
  /\ xtally = [r \in 1 .. MaxCommands |-> NoTally]
  /\ observer = "none"
  /\ pending = <<>>
  /\ timeout = FALSE
  /\ dnext = 1
  /\ dwindow = <<>>
  /\ dhist = NoDomHistory
  /\ dev = NoDomEvent
  /\ hfn = NativeFns
  /\ hlisten = {}
  /\ hook = NoHooks
  /\ hflight = NoFlight
  /\ xhrListeners = <<>>
  /\ hlog = <<>>
  /\ hev = NoHookEvent

SpecRelay == InitSpecRelay /\ [][NextRelay]_vars
SpecServer == InitSpecServer /\ [][NextServer]_vars
SpecResolve == InitSpecResolve /\ [][NextResolve]_vars
SpecTree == InitSpecTree /\ [][NextTree]_vars
SpecIds == InitSpecIds /\ [][NextIds]_vars
SpecExec == InitSpecExec /\ [][NextExec]_vars
SpecBridge == InitSpecBridge /\ [][NextBridge]_vars
\* the bridge with its reconnect timers firing: setTimeout runs the callback
\* of a timer that stays set
SpecReconnect ==
  InitSpecBridge /\ [][NextBridge]_vars /\ \A t \in TimerIds : WF_vars(TimerFires(t))
SpecDom == InitSpecDom /\ [][NextDom]_vars
SpecObserver == InitSpecObserver /\ [][NextObserver]_vars
SpecHooks == InitSpecHooks /\ [][NextHooks]_vars
SpecNet == InitSpecNet /\ [][NextNet]_vars

(***************************************************************************)
(* PROPERTIES OF THE RELAY                                                 *)
(***************************************************************************)
\* who must get the frame the message handler just forwarded: the open
\* registered clients of the sender's session whose role is the other one
MustReceive(s) ==
  /\ s \in Registered
  /\ rsock[s] = "open"
  /\ ClientOf(s).sessionId = ClientOf(rop.ws).sessionId
  /\ ClientOf(s).role # ClientOf(rop.ws).role

ResultsOfRun ==
  {xrun.frames[i] : i \in {j \in 1 .. Len(xrun.frames) :
                             xrun.frames[j].type = "command_result"}}

\* the commands whose handler has nothing left to run and whose socket stayed
\* Open all the while
Answerable == {r \in 1 .. MaxCommands : xtally[r].received /\ xtally[r].done /\ xtally[r].open}

\* the action commands whose result is always a plain acknowledgement
AcknowledgedTypes == ActionTypes \ {"evaluate"}

C3_EveryRequestAnswered ==
  \A r \in Answerable : xtally[r].frames >= 1

\* C4: a command_result with success=false carries a code of the closed
\* ErrorCode set, whatever the handler or the evaluated code threw.
C4_ClosedErrorCodes ==
  \A f \in ResultsOfRun : ~f.success => f.code \in ErrorCode

StableIdHits ==
  {i \in 1 .. Len(rdom) :
     /\ rtarget.stableId # None
     /\ \/ rdom[i].bid = rtarget.stableId
        \/ rdom[i].testid = rtarget.stableId
        \/ rdom[i].id = rtarget.stableId}
SelectorHits ==
  {i \in 1 .. Len(rdom) : rtarget.selector = "q" /\ rdom[i].q}
TextHits ==
  {i \in 1 .. Len(rdom) :
     /\ rtarget.text # None
     /\ rdom[i].tag = "button"
     /\ TextIncludes(rdom[i], rtarget.text)}

\* C10: resolution is stableId > selector > text and stops at the first
\* match: when the stableId matches an element, such an element is returned;
\* the selector decides only when the stableId is absent or matches
\* nothing, and the text only when both are absent or match nothing.
C10_ResolutionOrder ==
  (rresult # NotResolved /\ rtarget.defined) =>
    /\ StableIdHits # {} => (rresult.status = "ok" /\ rresult.el \in StableIdHits)
    /\ rresult.via = "selector" => StableIdHits = {}
    /\ rresult.via = "text" => (StableIdHits = {} /\ SelectorHits = {})

(***************************************************************************)
(* PROPERTIES OF THE CONNECTION MANAGER                                    *)
(***************************************************************************)
\* the reconnect timers that are set
LiveTimers == {t \in TimerIds : timers[t].live}

\* the least delay of the reconnect after the n-th close in a row
Backoff(n) == Min(ReconnectBaseDelayMs * Pow2(n - 1), ReconnectMaxDelayMs)

\* C6: with autoReconnect enabled, the reconnect scheduled after the n-th
\* close in a row that disconnect() did not suppress (n counted since the last
\* open, which resets it) fires no earlier than min(base * 2^(n-1), maxDelay)
\* ms after that close; the delay never exceeds maxDelay and does not
\* decrease as n grows.
C6_ReconnectBackoff ==
  /\ \A t \in LiveTimers :
       /\ bcfg.autoReconnect
       /\ timers[t].n >= 1
       /\ timers[t].delay >= Backoff(timers[t].n)
       /\ timers[t].delay <= ReconnectMaxDelayMs
  /\ \A t, u \in LiveTimers : timers[t].n <= timers[u].n => timers[t].delay <= timers[u].delay
  /\ bev.kind = "timer" =>
       /\ bev.fired.delay >= Backoff(bev.fired.n)
       /\ bev.fired.delay <= ReconnectMaxDelayMs
       /\ \A u \in LiveTimers :
            /\ bev.fired.n <= timers[u].n => bev.fired.delay <= timers[u].delay
            /\ timers[u].n <= bev.fired.n => timers[u].delay <= bev.fired.delay

\* the reconnect after a second close in a row has fired, at the capped delay,
\* and opened a socket
C6_SecondReconnectFired ==
  /\ bev.kind = "timer"
  /\ bev.fired.n = 2
  /\ bev.fired.delay = ReconnectMaxDelayMs
  /\ bev.fired.delay > ReconnectBaseDelayMs
  /\ bev.created # 0

\* C7: once maxAttempts reconnect attempts in a row have failed, exactly one
\* terminal error has been surfaced through onError, no reconnect timer is
\* pending, and no connection attempt is made unless the application calls
\* connect() itself.
C7_ReconnectExhaustion ==
  rfails >= ReconnectMaxAttempts =>
    /\ terminals = 1
    /\ LiveTimers = {}
    /\ reconnectTimeout = 0
    /\ bev.created = 0

\* C8: after disconnect() and until the application calls connect() again, no
\* reconnect timer is pending, a close event schedules no reconnect, and no
\* socket is opened.
C8_DisconnectIsTerminal ==
  disconnected =>
    /\ LiveTimers = {}
    /\ reconnectTimeout = 0
    /\ bev.scheduled = 0
    /\ bev.created = 0

(***************************************************************************)
(* PROPERTIES OF THE DOM MUTATION BATCHER                                  *)
(***************************************************************************)
\* C9: while the observer is running, the records that arrive inside one
\* batching window (from the record that sets the flush timer until the timer
\* fires) are handed over as exactly one dom_mutations batch holding exactly
\* those records in arrival order; no step but the flush hands over anything,
\* and no batch is empty.
C9_MutationBatching ==
  /\ dev.kind = "flush" => (dev.window # <<>> /\ dev.batches = <<dev.window>>)
  /\ dev.kind # "flush" => dev.batches = <<>>
  /\ \A i \in 1 .. Len(dev.batches) : dev.batches[i] # <<>>
  /\ timeout => (observer = "running" /\ dwindow # <<>>)

\* a second window of the same connection was flushed with three records in
\* it, which came in two callbacks
C9_SecondWindowFlushed ==
  /\ dev.kind = "flush"
  /\ Len(dev.batches) = 1
  /\ [i \in 1 .. Len(dev.batches[1]) |-> dev.batches[1][i].seq] = <<2, 3, 4>>
  /\ dev.batches[1][1].targetSelector = "#a"
  /\ dev.batches[1][2].targetSelector = "div"

(***************************************************************************)
(* PROPERTIES OF THE RELAY: ADMISSION, ROSTER EVENTS, MALFORMED FRAMES     *)
(***************************************************************************)
\* the connection the handler just saw has a role parameter other than 'app'
\* and 'agent' (or none), or no sessionId
BadConnection ==
  /\ rop.kind = "connection"
  /\ (rop.role \notin {"app", "agent"} \/ rop.session = None)

\* C14: a connection whose role is not exactly 'app' or 'agent', or whose
\* sessionId is missing, is closed at once with a reason code, is not
\* registered in the client pool, gets no handlers, and causes no
\* connection_event; and frames only ever go to registered clients.
C14_AcceptOnlyValidRole ==
  /\ BadConnection =>
       /\ rclose # 0
       /\ rsock[rop.ws] = "closed"
       /\ rop.ws \notin Registered
       /\ rop.ws \notin rhandlers
       /\ rinbox = NoInbox
  /\ \A s \in Sock : rinbox[s] # <<>> => s \in Registered

\* the open registered clients of a session other than socket ws
OtherOpenMembers(ws, sessionId) ==
  {s \in Registered \ {ws} : rsock[s] = "open" /\ ClientOf(s).sessionId = sessionId}

C16_LeaveAnnounced ==
  /\ (rop.kind = "close" /\ rop.role # None) =>
       /\ rop.ws \notin Registered
       /\ \A s \in Sock :
            rinbox[s] =
              IF s \in OtherOpenMembers(rop.ws, rop.session)
              THEN <<[from |-> "server",
                      data |-> IF rop.role = "app" THEN "app_disconnected"
                               ELSE "agent_disconnected"]>>
              ELSE <<>>
  /\ \A s \in Sock : rinbox[s] # <<>> => s \in Registered
  /\ (rop.kind = "message" /\ rinbox # NoInbox) => rop.ws \in Registered
  /\ \A s \in Registered : s \in rhandlers

\* an app left a session in which an agent and another app remained: both
\* were told
C16_AppLeavesAgentAndApp ==
  /\ rop.kind = "close"
  /\ rop.role = "app"
  /\ \E a, b \in Registered :
       /\ ClientOf(a).role = "agent" /\ ClientOf(b).role = "app"
       /\ rinbox[a] = <<[from |-> "server", data |-> "app_disconnected"]>>
       /\ rinbox[b] = <<[from |-> "server", data |-> "app_disconnected"]>>

\* a frame that is not JSON text
Malformed(d) == d = "garbage"

\* what a well-formed frame of a registered sender must lead to
RoutedNormally ==
  \A s \in Sock :
    rinbox[s] = IF MustReceive(s) THEN <<[from |-> rop.ws, data |-> rop.data]>> ELSE <<>>

\* C17: a frame that is not valid JSON is dropped: the handler forwards it to
\* nobody, sends nothing to the sender, invokes no CLI callback, closes
\* nothing and leaves the client pool as it was; and the next frame of the
\* same client, when well formed, is routed as any other.
C17_MalformedDropped ==
  [][/\ (rop'.kind = "message" /\ Malformed(rop'.data)) =>
          /\ rinbox' = NoInbox
          /\ rcli' = <<>>
          /\ rclose' = 0
          /\ clients' = clients
          /\ rsock' = rsock
          /\ rhandlers' = rhandlers
     /\ (/\ rop.kind = "message" /\ Malformed(rop.data)
         /\ rop'.kind = "message" /\ ~Malformed(rop'.data)
         /\ rop'.ws = rop.ws /\ rop.ws \in Registered) =>
          RoutedNormally']_vars

\* an app sent a malformed frame while an agent of its session was open
C17_MalformedFromAppWithAgent ==
  /\ rop.kind = "message"
  /\ Malformed(rop.data)
  /\ rop.ws \in Registered
  /\ ClientOf(rop.ws).role = "app"
  /\ \E a \in Registered : ClientOf(a).role = "agent" /\ rsock[a] = "open"

(***************************************************************************)
(* PROPERTIES OF THE ACTION COMMANDS                                       *)
(***************************************************************************)
\* the elements of a document that one of the fields a target supplies matches
FieldHits(target, dom) ==
  {i \in 1 .. Len(dom) :
     \/ /\ target.stableId # None
        /\ \/ dom[i].bid = target.stableId
           \/ dom[i].testid = target.stableId
           \/ dom[i].id = target.stableId
     \/ target.selector = "q" /\ dom[i].q
     \/ /\ target.text # None
        /\ dom[i].tag = "button"
        /\ TextIncludes(dom[i], target.text)}

\* C11: when no field of the target (a target with no fields included)
\* matches an element, the command gets one command_result with success=false
\* and code TARGET_NOT_FOUND, and nothing is dispatched on or written to any
\* element; and a command only ever acts on an element one of the supplied
\* fields matches.
C11_NoMatchIsTargetNotFound ==
  (xrun.kind = "execute" /\ xrun.type \in TargetTypes /\ xrun.target.defined) =>
    /\ FieldHits(xrun.target, ExecDom) = {} =>
         /\ xtally[xrun.requestId].results = 1
         /\ \A f \in ResultsOfRun : ~f.success /\ f.code = "TARGET_NOT_FOUND"
         /\ xrun.effects = <<>>
    /\ \A i \in 1 .. Len(xrun.effects) :
         xrun.effects[i].el \in FieldHits(xrun.target, ExecDom)

C12_StableIdRoundTrip ==
  rtree.clicked # 0 =>
    /\ rresult.status = "ok"
    /\ rresult.el = rtree.items[rtree.clicked].el

WsIsOpen == bws # 0 /\ readyState[bws] = "open"

\* C18: send() is fire-and-forget.  What is passed to send() while the socket
\* is not Open (before the open, while reconnecting, after disconnect()) is
\* discarded; and whatever a step transmits was passed to send() in that very
\* step with the socket Open, so nothing of an earlier step is transmitted
\* later, on that or on another connection.
C18_SendFireAndForget ==
  /\ bev.sent # <<>> => (WsIsOpen /\ bev.on = bws /\ bev.sent = bev.passed)
  /\ (bev.passed # <<>> /\ ~WsIsOpen) => bev.sent = <<>>
  /\ bev.kind \notin {"open", "send"} => (bev.sent = <<>> /\ bev.passed = <<>>)
  /\ \A s \in BSock : readyState[s] \in {"none", "connecting"} => bwire[s] = <<>>

\* a state_update was passed to send() while a reconnect attempt was under
\* way, after a connection had been lost, and was discarded
C18_DiscardedWhileReconnecting ==
  /\ bev.kind = "send"
  /\ bev.passed = <<"state_update">>
  /\ bev.sent = <<>>
  /\ bws # 0
  /\ readyState[bws] = "connecting"
  /\ bws \in attempting

\* C19: when a socket opens, hello, then capabilities, then the initial
\* burst are sent on that socket, in this order, and nothing else (no
\* collector telemetry, no state_update) is ever sent on a socket before
\* hello and capabilities, on the first connection and on every reconnection.
C19_HandshakeOrder ==
  /\ \A s \in BSock : bwire[s] \in {<<>>, <<"hello", "capabilities">>}
  /\ bev.kind = "open" =>
       /\ bev.passed[1] = "hello"
       /\ bev.passed[2] = "capabilities"
       /\ \A i \in 3 .. Len(bev.passed) : bev.passed[i] \in {"dom_snapshot", "ui_tree", "state_update"}
       /\ bev.on = bev.socket
       /\ bev.sent = bev.passed
  /\ (bev.kind = "send" /\ bev.sent # <<>>) => bwire[bev.on] = <<"hello", "capabilities">>

\* C20: connect() while the socket is Open does nothing: no socket is
\* created and `ws`, the sockets, the reconnect counter, the pending timer,
\* the suppression flag and the collectors are as before.  In any other state
\* it leaves no reconnect timer pending, clears the suppression flag and
\* opens one new socket, which becomes `ws`.
C20_ConnectWhileOpenIsNoOp ==
  [][bev'.kind = "connect" =>
       IF WsIsOpen
       THEN /\ bev'.created = 0
            /\ UNCHANGED <<bws, readyState, reconnectAttempt, reconnectTimeout,
                           intentionalDisconnect, timers, hooksRef, hooksLeaked,
                           attempting, bwire>>
       ELSE /\ reconnectTimeout' = 0
            /\ reconnectTimeout # 0 => ~timers'[reconnectTimeout].live
            /\ \A u \in TimerIds : ~timers'[u].live
            /\ ~intentionalDisconnect'
            /\ bev'.created # 0
            /\ readyState[bev'.created] = "none"
            /\ readyState' = [readyState EXCEPT ![bev'.created] = "connecting"]
            /\ bws' = bev'.created
            /\ UNCHANGED <<reconnectAttempt, hooksRef, hooksLeaked>>]_vars

(***************************************************************************)
(* PROPERTIES OF THE WIRE FORMAT                                           *)
(***************************************************************************)
\* the fields of the envelope
EnvelopeFields == {"protocolVersion", "sessionId", "timestamp", "origin", "type"}

\* C22: every frame the client puts on the wire (handshake, telemetry,
\* state updates) is an object carrying protocolVersion 1, the sessionId of
\* its session, a timestamp, an origin and a type.
C22_EveryFrameHasEnvelope ==
  \A i \in 1 .. Len(bev.sent) :
    /\ EnvelopeFields \subseteq DOMAIN SendEnvelope(bev.sent[i])
    /\ SendEnvelope(bev.sent[i]).protocolVersion = 1
    /\ SendEnvelope(bev.sent[i]).sessionId = BridgeSessionId
    /\ SendEnvelope(bev.sent[i]).type = bev.sent[i]

(***************************************************************************)
(* PROPERTIES OF THE COLLECTORS                                            *)
(***************************************************************************)
\* C21: stop() of a started collector leaves every built-in the collector
\* patched equal to the function that was installed before its start() and
\* leaves none of its listeners registered; stop() of a stopped collector
\* changes no built-in, no listener and nothing in the collector.
C21_TeardownReversible ==
  [][hev'.op = "stop" =>
       IF hev'.was = "started"
       THEN /\ \A b \in Patched(hev'.kind) :
                 hfn'[b] = hook[hev'.kind][hev'.id].before[b]
            /\ \A e \in Events(hev'.kind) : <<e, hev'.id>> \notin hlisten'
            /\ \A b \in Builtins \ Patched(hev'.kind) : hfn'[b] = hfn[b]
       ELSE /\ hfn' = hfn
            /\ hlisten' = hlisten
            /\ hook' = hook]_vars

\* a NavigationHook was started over the wrappers of an earlier instance and
\* stopped, and then stopped a second time
C21_StoppedTwiceOverWrapper ==
  /\ hev.op = "stop"
  /\ hev.kind = "navigation"
  /\ hev.id = 2
  /\ hev.was = "stopped"
  /\ hook["navigation"][1].phase = "started"
  /\ hook["navigation"][2].before["pushState"] = Wrapper(1)
  /\ hfn["pushState"] = Wrapper(1)
  /\ hlisten = {"popstate", "hashchange"} \X {1}

\* header names that contain 'authorization' or 'cookie', whatever the case
SensitiveHeaders ==
  {"Authorization", "authorization", "Cookie", "cookie", "Set-Cookie", "set-cookie"}

\* C23: no network_request and no network_response the network hook hands
\* over, for fetch or for XHR, has a header whose name contains
\* 'authorization' or 'cookie'.
C23_NoSensitiveHeaders ==
  \A k \in 1 .. Len(hev.emitted) :
    hev.emitted[k].type \in {"network_request", "network_response"} =>
      hev.emitted[k].headers \cap SensitiveHeaders = {}

\* the places of the log where this instance's callback of this type was
\* called with this requestId
LogPlaces(type, h, requestId) ==
  {k \in 1 .. Len(hlog) :
     hlog[k].type = type /\ hlog[k].hook = h /\ hlog[k].requestId = requestId}

\* C32: a fetch or XHR whose URL is captured is reported by one
\* network_request per hook instance, followed by at most one
\* network_response with the same requestId, the request first; no two
\* requests of an instance have the same requestId; a call whose URL is not
\* captured reports nothing.
C32_RequestThenOneResponse ==
  /\ \A k \in 1 .. Len(hlog) :
       LET e == hlog[k]
       IN /\ e.type = "network_request" =>
               LogPlaces("network_request", e.hook, e.requestId) = {k}
          /\ e.type = "network_response" =>
               /\ LogPlaces("network_response", e.hook, e.requestId) = {k}
               /\ \E j \in LogPlaces("network_request", e.hook, e.requestId) : j < k
  /\ (hev.op \in {"fetch", "xhr"} /\ hev.capture) =>
       /\ hev.emitted # <<>>
       /\ \A k, l \in 1 .. Len(hev.emitted) :
            hev.emitted[k].hook = hev.emitted[l].hook => k = l
  /\ (hev.op \in {"fetch", "xhr"} /\ ~hev.capture) => hev.emitted = <<>>

(***************************************************************************)
(* PROPERTIES OF THE EXECUTOR: SCREENSHOTS, THE GUARD, CONCURRENCY         *)
(***************************************************************************)
\* the last run answered a request_screenshot on a socket that stayed Open
ScreenshotAnswered ==
  /\ xrun.type = "request_screenshot"
  /\ xrun.end = "return"
  /\ xtally[xrun.requestId].open
  /\ xopen

\* the frame reports a failure with the viewport's width and height
FailureWithViewport(f) ==
  f.type = "screenshot" /\ f.size = "viewport" /\ (f.data = "" \/ f.code # None)

\* the frame is the command_result the window.html2canvas executor sends from
\* its catch block
FailureAsResult(f) ==
  /\ f.type = "command_result"
  /\ f.requestType = "request_screenshot"
  /\ ~f.success
  /\ f.code = "SCREENSHOT_FAILED"
  /\ f.size = None

C25_GuardCatchesAll ==
  xrun.kind = "execute" =>
    /\ xrun.serializable
    /\ (xrun.thrown /\ xrun.code = None) =>
         /\ Len(xrun.frames) >= 1
         /\ CountResults(xrun.frames, xrun.requestId) = 1
         /\ xrun.frames[Len(xrun.frames)].type = "command_result"
         /\ ~xrun.frames[Len(xrun.frames)].success
         /\ xrun.frames[Len(xrun.frames)].code = "UNKNOWN_ERROR"

\* the element the last run's target resolved to (0: none)
ResolvedElement ==
  IF xrun.kind = "execute" /\ xrun.type \in TargetTypes
     /\ ExecResolution[xrun.target].status = "ok"
  THEN ExecResolution[xrun.target].el ELSE 0

\* the last run ended in one command_result with success=false and this code,
\* and did nothing to the page
RefusedWith(code) ==
  /\ xrun.effects = <<>>
  /\ Len(xrun.frames) = 1
  /\ xrun.frames[1].type = "command_result"
  /\ ~xrun.frames[1].success
  /\ xrun.frames[1].code = code

\* C26: a click, type, hover, select or focus whose target resolves to a
\* disabled element fails with TARGET_DISABLED, one whose target resolves to
\* a hidden element fails with TARGET_NOT_VISIBLE, and neither dispatches an
\* event on the element or changes its value.
C26_DisabledAndHiddenRefused ==
  /\ ResolvedElement \in ExecDisabled => RefusedWith("TARGET_DISABLED")
  /\ ResolvedElement \in ExecHidden => RefusedWith("TARGET_NOT_VISIBLE")

\* the captures that were awaited when the last command arrived
AwaitedBefore == {p \in xpending : p.requestId < xrun.requestId}

\* C29: the executor does not serialize commands. A command that arrives
\* while the capture of an earlier request_screenshot is awaited runs to its
\* end in its own handler run: only a request_screenshot ever waits, and a
\* command that ends with a result has its one command_result on the wire
\* in that run, ahead of the answer of the capture. Every frame of a run that
\* has a requestId carries the one of the command the run is for.
C29_NotSerialized ==
  /\ \A i \in 1 .. Len(xrun.frames) :
       xrun.frames[i].type # "state_update" => xrun.frames[i].requestId = xrun.requestId
  /\ (xrun.kind = "execute" /\ AwaitedBefore # {}) =>
       /\ xrun.end = "await" => xrun.type = "request_screenshot"
       /\ (xrun.end = "result" /\ xrun.serializable) =>
            /\ CountResults(xrun.frames, xrun.requestId) = 1
            /\ xtally[xrun.requestId].done
            /\ \A p \in AwaitedBefore : xtally[p.requestId].frames = 0
       /\ xrun.type \in TargetTypes /\ ExecResolution[xrun.target].status = "ok" =>
            xrun.effects # <<>>

\* the answers left in the other order: the capture of an earlier
\* request_screenshot is answered after the result of a later command
C29_AnsweredOutOfOrder ==
  /\ xrun.kind = "settle"
  /\ CountFrames(xrun.frames, xrun.requestId) = 1
  /\ \E r \in DOMAIN xtally :
       /\ r > xrun.requestId
       /\ xtally[r].done
       /\ xtally[r].results = 1

(***************************************************************************)
(* PROPERTIES OF THE RELAY: ONE APP PER SESSION, MULTICAST                 *)
(***************************************************************************)
\* the registered clients of a role in a session
MembersOf(role, sessionId) ==
  {i \in 1 .. Len(clients) : clients[i].role = role /\ clients[i].sessionId = sessionId}

\* C27: at every state at most one app-role client is registered for a
\* session.
C27_OneAppPerSession ==
  \A sessionId \in SessionParams :
    sessionId # None => Cardinality(MembersOf("app", sessionId)) <= 1

\* the open registered clients of a role in the session of the last sender
OpenPeers(role) ==
  {s \in Registered : /\ rsock[s] = "open"
                       /\ ClientOf(s).role = role
                       /\ ClientOf(s).sessionId = ClientOf(rop.ws).sessionId}

\* the last handler run forwarded this frame of a client of this role
Forwarded(data, role) ==
  rop.kind = "message" /\ rop.data = data /\ ClientOf(rop.ws).role = role

\* who received something in the last handler run
Receivers == {s \in Sock : rinbox[s] # <<>>}

\* C28: a request_ui_tree of an agent goes to the apps of its session and to
\* no agent; the ui_tree frame an app answers with goes to every open agent
\* of the session, the requester and the others alike, once each, and to no
\* app.
C28_ResponseMulticast ==
  /\ Forwarded("request_ui_tree", "agent") => Receivers = OpenPeers("app")
  /\ Forwarded("ui_tree", "app") =>
       /\ Receivers = OpenPeers("agent")
       /\ \A s \in Receivers : rinbox[s] = <<[from |-> rop.ws, data |-> "ui_tree"]>>

\* two agents and one app share the session and the app's ui_tree reached
\* both agents
C28_BothAgentsGotTree ==
  /\ Forwarded("ui_tree", "app")
  /\ Cardinality(OpenPeers("agent")) = 2
  /\ Cardinality(Receivers) = 2
  /\ Cardinality(MembersOf("app", ConfigSession)) = 1

(***************************************************************************)
(* PROPERTIES OF THE STABLE IDS                                            *)
(***************************************************************************)
\* the sources of a stable id an element has
HasTestId(e) == e.testid # None /\ e.testid # ""
HasOwnId(e) == e.id # None /\ e.id # "" /\ ~StartsWithColon(e.id)
TextOf(e) == Substring(Trim(e.text), 20)

ConnectingOrOpen == {s \in BSock : readyState[s] \in {"connecting", "open"}}

\* C33: whatever the order of connect(), disconnect(), timer firings and
\* socket events, at most one socket of the bridge is Connecting or Open.
C33_OneLiveSocket == Cardinality(ConnectingOrOpen) <= 1

\* C34: while the current socket is Open (its open handler has run) the
\* collectors are running; and the close event of a socket that is not the
\* current one leaves the current connection alone: it schedules no
\* reconnect, raises no terminal error and does not count as an attempt.
C34_CloseOfEarlierSocketIsInert ==
  /\ WsIsOpen => hooksRef
  /\ (bev.kind = "close" /\ bws # 0) => (bev.scheduled = 0 /\ ~bev.terminal)

\* C35: once every socket of the bridge is closed, no collector is left
\* running: none that the bridge still refers to, and none that it started
\* and lost the reference to, whose wrappers and listeners would stay
\* installed.
C35_NothingLeftInstalled ==
  (\A s \in BSock : readyState[s] = "none") => (~hooksRef /\ ~hooksLeaked)

(***************************************************************************)
(* PROPERTIES OF THE EXECUTOR ACROSS RECONNECTS                            *)
(***************************************************************************)
\* C36: every frame a run sends for a command goes out on the connection
\* the command was received on; a capture that is still awaited when its
\* socket closes sends nothing on a later connection.
C36_AnsweredOnOwnSocket ==
  \A i \in 1 .. Len(xrun.frames) : xrun.frames[i].conn = xrun.conn

(***************************************************************************)
(* PROPERTIES OF ONE DOM OBSERVER                                          *)
(***************************************************************************)
\* C37: a DomObserver hands every record to its callback at most once, and
\* hands over no record after a stop() that the document had produced before
\* that stop(), also when the observer is started again.
C37_NothingDeliveredTwiceOrAfterStop ==
  /\ \A i, j \in 1 .. Len(dhist.delivered) :
       dhist.delivered[i] = dhist.delivered[j] => i = j
  /\ \A i \in 1 .. Len(dhist.afterStop) : dhist.afterStop[i] > dhist.stoppedAt

(***************************************************************************)
(* PROPERTIES OF THE RELAY: THE CLIENT POOL                                *)
(***************************************************************************)
\* the pool holds every socket once, each with a role of the protocol and
\* the session of the relay, and holds exactly the accepted sockets whose
\* close handler has not run
PoolIsExact ==
  /\ Registered = rhandlers
  /\ \A i, j \in 1 .. Len(clients) : clients[i].ws = clients[j].ws => i = j
  /\ \A i \in 1 .. Len(clients) :
       /\ clients[i].role \in {"app", "agent"}
       /\ clients[i].sessionId = ConfigSession
       /\ rsock[clients[i].ws] \in {"open", "closed"}
  /\ \A s \in Sock : rsock[s] = "free" => s \notin Registered

\* a client that stays in the pool keeps its role and its sessionId
ClientsImmutable ==
  \A s \in Sock : (s \in Registered /\ s \in Registered') => ClientOf(s)' = ClientOf(s)

\* C38: at every state the pool of the relay holds exactly the sockets that
\* were accepted and have not closed; every client in it has the role app or
\* agent; a client's role and sessionId never change; once the last client
\* of the session has closed the relay holds nothing of the session.
C38_PoolInvariant == []PoolIsExact /\ [][ClientsImmutable]_vars

\* the last client of the session has closed while a socket the relay had
\* refused is still around: the pool is empty and no handler is left
C38_PoolEmptiedAgain ==
  /\ rop.kind = "close"
  /\ rop.session = ConfigSession
  /\ clients = <<>>
  /\ rhandlers = {}
  /\ \E s \in Sock : s # rop.ws /\ rsock[s] = "closed"

(***************************************************************************)
(* PROPERTIES OF THE SINGLE-CONNECTION SERVER                              *)
(***************************************************************************)
\* the accepted sockets that are Open
OpenApps == {s \in rhandlers : rsock[s] = "open"}

\* C39: whenever an accepted app socket is Open, sendCommand transmits the
\* command on an Open app socket.
C39_CommandReachesOpenApp ==
  (rop.kind = "sendCommand" /\ OpenApps # {}) =>
    \E s \in OpenApps : rinbox[s] # <<>>

(***************************************************************************)
(* PROPERTIES OF THE CONNECTION MANAGER: RECONNECT LIVENESS                *)
(***************************************************************************)
\* the last step was a close that disconnect() did not suppress, with
\* autoReconnect on; fewer than maxAttempts reconnect attempts in a row have
\* failed, and it is at most the maxAttempts-th such close since the last open
UnintentionalClose ==
  /\ bev.kind = "close"
  /\ bcfg.autoReconnect
  /\ ~intentionalDisconnect
  /\ rfails < ReconnectMaxAttempts
  /\ closes <= ReconnectMaxAttempts

\* the last step made a connection attempt (a timer, or the application)
AttemptMade == bev.kind \in {"timer", "connect"} /\ bev.created # 0

\* C40: with autoReconnect on and the timers firing, after every close that
\* disconnect() did not suppress, at which fewer than maxAttempts reconnect
\* attempts in a row have failed, a new connection attempt is made, unless
\* disconnect() is called first.
C40_ReconnectLiveness ==
  UnintentionalClose ~> (AttemptMade \/ bev.kind = "disconnect")

====
